---- MODULE Spec2Model ----
(***************************************************************************)
(* A model of dns-benchmark (src/main.py): the Resolution Probe            *)
(* (_async_resolve_aiodns), the HTTP Reachability Probe                    *)
(* (async_test_http_performance) and the per-resolver evaluation           *)
(* (async_test_dns_server).                                                *)
(*                                                                         *)
(* Times are whole units (a unit of elapsed time), None is -1. Sleeps are  *)
(* counted in units of 50 ms, so the settling delay is 1 and the backoff   *)
(* after attempt i is 10 * (i + 1).                                        *)
(***************************************************************************)
EXTENDS Integers, Sequences, FiniteSets, TLC

\* ------------------------------------------------------------------ bounds
MaxRetries == 3
MaxTime == 2
MaxAnswers == 2
MaxRedirects == 3
MaxTests == 2
MaxConcurrency == 2

\* ------------------------------------------------------------- data values
None == -1
Times == 0..MaxTime
IPs == {"198.51.100.1", "198.51.100.2"}
EmptyIP == ""

\* An error text is the sequence of its words; `sub in text` of the source is
\* the membership of a word.
DnsErrorTexts ==
    { <<"NXDOMAIN">>, <<"SERVFAIL">>, <<"NXDOMAIN", "SERVFAIL">>,
      <<"Domain", "name", "not", "found">> }

Contains(text, word) == \E k \in 1..Len(text) : text[k] = word

NoText == <<>>

\* error_msg of an outcome: which message the code built, and from what.
NoMsg == [kind |-> "absent", text |-> NoText, a |-> 0, n |-> 0]
TimeoutMsg(a, n) == [kind |-> "timeout", text |-> NoText, a |-> a + 1, n |-> n]
DnsMsg(text) == [kind |-> "dns", text |-> text, a |-> 0, n |-> 0]
UnknownMsg(text) == [kind |-> "unknown", text |-> text, a |-> 0, n |-> 0]
DefaultMsg == [kind |-> "default", text |-> NoText, a |-> 0, n |-> 0]

\* The dictionaries the probe returns.
SuccessOutcome(elapsed, ips) ==
    [elapsed |-> elapsed, ips |-> ips, error |-> "none", error_msg |-> NoMsg]
FailedOutcome(error, msg) ==
    [elapsed |-> None, ips |-> <<>>, error |-> error, error_msg |-> msg]
UnavailableOutcome == FailedOutcome("aiodns unavailable", NoMsg)
DefaultOutcomeNoError ==
    [elapsed |-> None, ips |-> <<>>, error |-> "none", error_msg |-> DefaultMsg]
DefaultOutcome == FailedOutcome("UNKNOWN", DefaultMsg)
NoOutcome == FailedOutcome("<no value>", NoMsg)

\* ------------------------------------------- what the DNS capability gives
\* An answer item is a string, an object with .address, one with .host, or
\* something else.
AnswerItems ==
    [attr : {"str", "host", "other"}, val : {"198.51.100.1"}]
    \cup [attr : {"address"}, val : IPs]

RECURSIVE SeqsUpTo(_, _)
SeqsUpTo(S, n) ==
    IF n = 0 THEN { <<>> }
    ELSE LET shorter == SeqsUpTo(S, n - 1)
         IN  shorter \cup { Append(s, x) : s \in { t \in shorter : Len(t) = n - 1 }, x \in S }

QueryResults ==
    [shape : {"list", "answer"}, items : SeqsUpTo(AnswerItems, MaxAnswers)]
    \cup [shape : {"single", "other"}, items : { <<i>> : i \in AnswerItems }]

RECURSIVE SelectItems(_, _)
SelectItems(items, attrs) ==
    IF items = <<>> THEN <<>>
    ELSE IF Head(items).attr \in attrs
         THEN <<Head(items).val>> \o SelectItems(Tail(items), attrs)
         ELSE SelectItems(Tail(items), attrs)

ExtractIps(result) ==
    CASE result.shape = "list" -> SelectItems(result.items, {"str", "address", "host"})
      [] result.shape = "answer" -> SelectItems(result.items, {"address"})
      [] result.shape = "single" -> SelectItems(result.items, {"address"})
      [] OTHER -> <<>>

\* What one attempt meets: the resolver cannot be built, or the query is
\* issued and ends one of four ways.
DnsFailures ==
    [kind : {"timeout"}, text : {NoText}]
    \cup [kind : {"dnserror"}, text : DnsErrorTexts]
    \cup [kind : {"exception"}, text : { <<"boom">> }]
CtorFailures ==
    [kind : {"dnserror"}, text : { <<"SERVFAIL">> }]
    \cup [kind : {"exception"}, text : { <<"bad", "nameserver">> }]

\* ------------------------------------------------------------------- state
VARIABLES
    HAS_AIODNS,     \* the import of aiodns succeeded
    retries,        \* the retries argument of the call
    r_pc,           \* where the call is
    attempt,        \* the loop variable of the retry loop
    last_error,     \* the local last_error (NoOutcome is Python's None)
    r_success,      \* the locals elapsed and ips of a successful attempt
    r_ret,          \* the value returned (NoOutcome until the call returns)
    r_raised,       \* an exception left the call
    r_obs           \* what the call did: queries issued, in flight, sleeps, ...

resolveVars ==
    <<HAS_AIODNS, retries, r_pc, attempt, last_error, r_success, r_ret, r_raised, r_obs>>


\* ------------------------------------------------- the Resolution Probe
InitObs ==
    [ queries |-> 0,            \* queries issued so far
      inflight |-> 0,           \* queries issued and not yet ended
      succeeded |-> FALSE,      \* some query of this call succeeded
      afterSuccess |-> 0,       \* queries issued after one succeeded
      failed |-> 0,             \* attempts that failed
      lastFailure |-> [kind |-> "none", text |-> NoText, at |-> None],
      sleeps |-> <<>> ]         \* every sleep: [after |-> attempt, dur |-> units]

InitResolve ==
    /\ HAS_AIODNS \in BOOLEAN
    /\ retries \in 0..MaxRetries
    /\ r_pc = "call"
    /\ attempt = 0
    /\ last_error = NoOutcome
    /\ r_success = NoOutcome
    /\ r_ret = NoOutcome
    /\ r_raised = FALSE
    /\ r_obs = InitObs

IdleResolve ==
    /\ HAS_AIODNS = TRUE
    /\ retries = 0
    /\ r_pc = "idle"
    /\ attempt = 0
    /\ last_error = NoOutcome
    /\ r_success = NoOutcome
    /\ r_ret = NoOutcome
    /\ r_raised = FALSE
    /\ r_obs = InitObs

\* Which except clause of the source takes an exception of this kind.
HandlerNoCatchAll(kind) ==
    CASE kind = "timeout" -> "TimeoutError"
      [] kind = "dnserror" -> "DNSError"
      [] OTHER -> "propagate"

Handler(kind) ==
    CASE kind = "timeout" -> "TimeoutError"
      [] kind = "dnserror" -> "DNSError"
      [] OTHER -> "Exception"

\* The error classification and message a handler builds.
ClassifyDnsErrorServfailFirst(text) ==
    IF Contains(text, "SERVFAIL") THEN "SERVFAIL"
    ELSE IF Contains(text, "NXDOMAIN") THEN "NXDOMAIN"
    ELSE "DNS_ERROR"

ClassifyDnsError(text) ==
    IF Contains(text, "NXDOMAIN") THEN "NXDOMAIN"
    ELSE IF Contains(text, "SERVFAIL") THEN "SERVFAIL"
    ELSE "DNS_ERROR"

HandledOutcome(f, a, n) ==
    CASE Handler(f.kind) = "TimeoutError" -> FailedOutcome("TIMEOUT", TimeoutMsg(a, n))
      [] Handler(f.kind) = "DNSError" -> FailedOutcome(ClassifyDnsError(f.text), DnsMsg(f.text))
      [] OTHER -> FailedOutcome("UNKNOWN", UnknownMsg(f.text))

\* async_resolve_domain: dispatch on HAS_AIODNS.
ResolveCall ==
    /\ r_pc = "call"
    /\ IF HAS_AIODNS
       THEN /\ r_pc' = "loop"
            /\ r_ret' = r_ret
       ELSE /\ r_pc' = "done"
            /\ r_ret' = UnavailableOutcome
    /\ UNCHANGED <<HAS_AIODNS, retries, attempt, last_error, r_success, r_raised, r_obs>>

\* for attempt in range(retries): the head of the loop, and the code after it.
ExhaustedReturnDefault == DefaultOutcome

ExhaustedReturn == IF last_error # NoOutcome THEN last_error ELSE DefaultOutcome

LoopHead ==
    /\ r_pc = "loop"
    /\ IF attempt < retries
       THEN /\ r_pc' = "try"
            /\ r_ret' = r_ret
       ELSE /\ r_pc' = "done"
            /\ r_ret' = ExhaustedReturn
    /\ UNCHANGED <<HAS_AIODNS, retries, attempt, last_error, r_success, r_raised, r_obs>>

\* The sleep that follows a failed attempt, and where the loop goes next.
BackoffAlways(a, n) == TRUE

Backoff(a, n) == a < n - 1

AfterFailure(f, obs) ==
    IF Handler(f.kind) = "propagate"
    THEN /\ r_pc' = "done"
         /\ r_raised' = TRUE
         /\ r_obs' = obs
         /\ UNCHANGED <<last_error, attempt>>
    ELSE /\ last_error' = HandledOutcome(f, attempt, retries)
         /\ r_raised' = r_raised
         /\ IF Backoff(attempt, retries)
            THEN /\ r_pc' = "backoff"
                 /\ r_obs' = [obs EXCEPT !.sleeps =
                                 Append(@, [after |-> attempt, dur |-> 10 * (attempt + 1)])]
                 /\ attempt' = attempt
            ELSE /\ r_pc' = "loop"
                 /\ r_obs' = obs
                 /\ attempt' = attempt + 1

NoteFailure(f, obs) ==
    [obs EXCEPT !.failed = @ + 1,
                !.lastFailure = [kind |-> f.kind, text |-> f.text, at |-> attempt]]

\* aiodns.DNSResolver(nameservers=[dns_server]) raises: no query is issued.
ResolverCtorFails ==
    /\ r_pc = "try"
    /\ \E f \in CtorFailures : AfterFailure(f, NoteFailure(f, r_obs))
    /\ UNCHANGED <<HAS_AIODNS, retries, r_success, r_ret>>

\* resolver.query(domain, "A") is issued under asyncio.wait_for.
IssueQuery ==
    /\ r_pc = "try"
    /\ r_pc' = "await"
    /\ r_obs' = [r_obs EXCEPT !.queries = @ + 1,
                             !.inflight = @ + 1,
                             !.afterSuccess = IF r_obs.succeeded THEN @ + 1 ELSE @]
    /\ UNCHANGED <<HAS_AIODNS, retries, attempt, last_error, r_success, r_ret, r_raised>>

\* The query ends with an answer: extract the IPs, then sleep 0.05 s.
QuerySucceeds ==
    /\ r_pc = "await"
    /\ \E result \in QueryResults, elapsed \in Times :
          r_success' = SuccessOutcome(elapsed, ExtractIps(result))
    /\ r_pc' = "settle"
    /\ r_obs' = [r_obs EXCEPT !.inflight = @ - 1,
                             !.succeeded = TRUE,
                             !.sleeps = Append(@, [after |-> attempt, dur |-> 1])]
    /\ UNCHANGED <<HAS_AIODNS, retries, attempt, last_error, r_ret, r_raised>>

\* The query ends with a timeout, a DNSError or another exception.
QueryFails ==
    /\ r_pc = "await"
    /\ \E f \in DnsFailures :
          AfterFailure(f, NoteFailure(f, [r_obs EXCEPT !.inflight = @ - 1]))
    /\ UNCHANGED <<HAS_AIODNS, retries, r_success, r_ret>>

\* await asyncio.sleep(0.05) ends: return the successful outcome.
SettleDoneContinues ==
    /\ r_pc = "settle"
    /\ r_pc' = "loop"
    /\ attempt' = attempt + 1
    /\ UNCHANGED <<HAS_AIODNS, retries, last_error, r_success, r_ret, r_raised, r_obs>>

SettleDone ==
    /\ r_pc = "settle"
    /\ r_pc' = "done"
    /\ r_ret' = r_success
    /\ UNCHANGED <<HAS_AIODNS, retries, attempt, last_error, r_success, r_raised, r_obs>>

\* await asyncio.sleep(0.5 * (attempt + 1)) ends: continue.
BackoffDone ==
    /\ r_pc = "backoff"
    /\ r_pc' = "loop"
    /\ attempt' = attempt + 1
    /\ UNCHANGED <<HAS_AIODNS, retries, last_error, r_success, r_ret, r_raised, r_obs>>

NextResolve ==
    \/ ResolveCall
    \/ LoopHead
    \/ ResolverCtorFails
    \/ IssueQuery
    \/ QuerySucceeds
    \/ QueryFails
    \/ SettleDone
    \/ BackoffDone


\* ------------------------------------------- the HTTP Reachability Probe
\* A URL is its authority and its path; a Location header is absent, empty,
\* a path (relative) or a URL (absolute).
ProbedIP == "203.0.113.5"
OriginDomain == "example.com"
Paths == {"/", "/next"}
NoLocation == [present |-> FALSE, netloc |-> "", path |-> ""]
Locations ==
    {NoLocation}
    \cup [present : {TRUE}, netloc : {"", ProbedIP, OriginDomain}, path : Paths \cup {""}]

\* urllib.parse.urljoin(current_url, location)
urljoin(url, location) ==
    IF location.netloc # ""
    THEN [netloc |-> location.netloc, path |-> IF location.path = "" THEN "/" ELSE location.path]
    ELSE [netloc |-> url.netloc, path |-> IF location.path = "" THEN url.path ELSE location.path]

\* `if not location`: the header is missing or empty.
LocationNeverMissing(location) == FALSE

LocationMissing(location) ==
    \/ ~location.present
    \/ (location.netloc = "" /\ location.path = "")

RedirectStatuses == {301, 302, 303, 307, 308}
Statuses == {200, 301, 304, 308, 404}

StatusText(status) ==
    CASE status = 404 -> "404"
      [] status = 200 -> "200"
      [] status = 304 -> "304"
      [] status = 301 -> "301"
      [] status = 308 -> "308"
      [] OTHER -> "status"

\* The exceptions the probe meets, each with the classes it is an instance
\* of. aiohttp.ClientSSLError is a subclass of aiohttp.ClientConnectorError.
HttpFailures ==
    { [name |-> "timeout", classes |-> {"TimeoutError", "Exception"}],
      [name |-> "connection", classes |-> {"ClientConnectorError", "Exception"}],
      [name |-> "tls", classes |-> {"ClientSSLError", "ClientConnectorError", "Exception"}],
      [name |-> "failure", classes |-> {"Exception"}] }

RedirectErrorClasses == {"HTTPRedirectError", "HTTPTestError", "Exception"}

\* The except clauses around session.get (first match wins): the text of the
\* HTTP*Error raised in place of the exception.
InnerHandler(classes, text) ==
    CASE "TimeoutError" \in classes -> <<"HTTPTimeoutError", "timeout">>
      [] "ClientConnectorError" \in classes -> <<"HTTPConnectionError", "connection error">> \o text
      [] "ClientSSLError" \in classes -> <<"HTTPSSLError", "ssl error">> \o text
      [] "Exception" \in classes -> <<"HTTPTestError", "request error">> \o text
      [] OTHER -> <<"BaseException">> \o text

\* The result dictionaries.
HttpFailedWithoutChain(error, chain) ==
    [connection_time |-> None, total_time |-> None, data_size |-> None,
     status_code |-> None, success |-> FALSE, error |-> error, redirects |-> <<>>]

HttpFailed(error, chain) ==
    [connection_time |-> None, total_time |-> None, data_size |-> None,
     status_code |-> None, success |-> FALSE, error |-> error, redirects |-> chain]

HttpFinalAlwaysSuccess(status, conn, total, size, chain) ==
    [connection_time |-> conn, total_time |-> total, data_size |-> size,
     status_code |-> status, success |-> TRUE,
     error |-> IF status < 400 THEN NoText ELSE <<"HTTP", StatusText(status)>>,
     redirects |-> chain]

HttpFinal(status, conn, total, size, chain) ==
    [connection_time |-> conn, total_time |-> total, data_size |-> size,
     status_code |-> status, success |-> status < 400,
     error |-> IF status < 400 THEN NoText ELSE <<"HTTP", StatusText(status)>>,
     redirects |-> chain]

NoHttpResult == HttpFailed(<<"<no value>">>, <<>>)

\* The outer except clauses: an HTTP*Error gives str(e), any other Exception
\* the text prefixed with the unknown-error message.
HttpErrorClasses ==
    {"HTTPTimeoutError", "HTTPConnectionError", "HTTPSSLError", "HTTPRedirectError",
     "HTTPStatusCodeError", "HTTPTestError"}

OuterCatches(raised) == Head(raised) # "BaseException"

OuterHandler(raised, chain) ==
    IF Head(raised) \in HttpErrorClasses
    THEN HttpFailed(Tail(raised), chain)
    ELSE HttpFailed(<<"unknown error">> \o Tail(raised), chain)

VARIABLES
    HAS_AIOHTTP,    \* the import of aiohttp succeeded
    max_redirects,  \* the max_redirects argument
    h_pc,           \* where the probe is
    redirect_count, \* the loop variable
    current_url,
    redirects,      \* the list redirects
    h_ret,          \* the dictionary returned (NoHttpResult until then)
    h_raised,       \* an exception left the probe
    h_obs           \* what the probe did: requests issued, Host headers sent

httpVars ==
    <<HAS_AIOHTTP, max_redirects, h_pc, redirect_count, current_url, redirects,
      h_ret, h_raised, h_obs>>

RootURL == [netloc |-> ProbedIP, path |-> "/"]

InitHttpObs ==
    [ requests |-> 0, hosts |-> <<>>, failure |-> "none", redirectsMet |-> 0,
      lastStatus |-> None, missingLocation |-> FALSE, revisited |-> FALSE,
      loopTarget |-> FALSE, followed |-> <<>> ]

InitHttp ==
    /\ HAS_AIOHTTP \in BOOLEAN
    /\ max_redirects \in 0..MaxRedirects
    /\ h_pc = "call"
    /\ redirect_count = 0
    /\ current_url = RootURL
    /\ redirects = <<>>
    /\ h_ret = NoHttpResult
    /\ h_raised = FALSE
    /\ h_obs = InitHttpObs

IdleHttp ==
    /\ HAS_AIOHTTP = TRUE
    /\ max_redirects = 0
    /\ h_pc = "idle"
    /\ redirect_count = 0
    /\ current_url = RootURL
    /\ redirects = <<>>
    /\ h_ret = NoHttpResult
    /\ h_raised = FALSE
    /\ h_obs = InitHttpObs

\* Leave the function through the outer except clauses.
HttpRaise(raised, obs) ==
    /\ h_pc' = "done"
    /\ h_obs' = obs
    /\ IF OuterCatches(raised)
       THEN /\ h_raised' = h_raised
            /\ h_ret' = OuterHandler(raised, redirects)
       ELSE /\ h_raised' = TRUE
            /\ h_ret' = h_ret

\* The entry: without aiohttp the unavailable result; else the locals.
HttpCall ==
    /\ h_pc = "call"
    /\ IF HAS_AIOHTTP
       THEN /\ h_pc' = "setup"
            /\ h_ret' = h_ret
       ELSE /\ h_pc' = "done"
            /\ h_ret' = HttpFailed(<<"aiohttp unavailable">>, <<>>)
    /\ UNCHANGED <<HAS_AIOHTTP, max_redirects, redirect_count, current_url, redirects,
                   h_raised, h_obs>>

\* TCPConnector(ssl=verify_ssl) and ClientSession(connector=connector).
HttpSetup ==
    /\ h_pc = "setup"
    /\ h_pc' = "loop"
    /\ UNCHANGED <<HAS_AIOHTTP, max_redirects, redirect_count, current_url, redirects,
                   h_ret, h_raised, h_obs>>

HttpSetupFails ==
    /\ h_pc = "setup"
    /\ HttpRaise(<<"Exception", "connector">>, [h_obs EXCEPT !.failure = "setup"])
    /\ UNCHANGED <<HAS_AIOHTTP, max_redirects, redirect_count, current_url, redirects>>

\* for redirect_count in range(max_redirects + 1), and the limit check that
\* opens the loop body.
LimitNeverReached(count, limit) == FALSE

LimitReached(count, limit) == count >= limit

HttpLoopHead ==
    /\ h_pc = "loop"
    /\ IF redirect_count > max_redirects
       THEN HttpRaise(<<"HTTPTestError", "unknown error">>, h_obs)
       ELSE IF LimitReached(redirect_count, max_redirects)
            THEN HttpRaise(<<"HTTPRedirectError", "redirect limit exceeded">>, h_obs)
            ELSE /\ h_pc' = "request"
                 /\ UNCHANGED <<h_ret, h_raised, h_obs>>
    /\ UNCHANGED <<HAS_AIOHTTP, max_redirects, redirect_count, current_url, redirects>>

\* The Host header: parsed_url.netloc if parsed_url.netloc else domain.
HostHeader(url) == IF url.netloc # "" THEN url.netloc ELSE OriginDomain

\* session.get(current_url, ..., allow_redirects=False) is issued.
HttpRequest ==
    /\ h_pc = "request"
    /\ h_pc' = "await"
    /\ h_obs' = [h_obs EXCEPT !.requests = @ + 1,
                             !.hosts = Append(@, HostHeader(current_url))]
    /\ UNCHANGED <<HAS_AIOHTTP, max_redirects, redirect_count, current_url, redirects,
                   h_ret, h_raised>>

\* The request or the read of the body raises.
HttpRequestFails ==
    /\ h_pc = "await"
    /\ \E f \in HttpFailures :
          HttpRaise(InnerHandler(f.classes, <<f.name>>), [h_obs EXCEPT !.failure = f.name])
    /\ UNCHANGED <<HAS_AIOHTTP, max_redirects, redirect_count, current_url, redirects>>

\* A redirect response (301, 302, 303, 307, 308).
HttpRedirectResponse ==
    /\ h_pc = "await"
    /\ \E status \in Statuses \cap RedirectStatuses, location \in Locations :
          LET obs == [h_obs EXCEPT !.redirectsMet = @ + 1, !.lastStatus = status,
                                   !.missingLocation =
                                       (location.netloc = "" /\ location.path = "")]
              target == urljoin(current_url, location)
          IN  IF LocationMissing(location)
              THEN /\ HttpRaise(InnerHandler(RedirectErrorClasses, <<"redirect without Location">>),
                                obs)
                   /\ UNCHANGED <<redirect_count, current_url, redirects>>
              ELSE IF \E k \in 1..Len(redirects) : redirects[k] = current_url
                   THEN /\ HttpRaise(InnerHandler(RedirectErrorClasses, <<"redirect loop">>),
                                     [obs EXCEPT !.revisited = TRUE])
                        /\ UNCHANGED <<redirect_count, current_url, redirects>>
                   ELSE /\ redirects' = Append(redirects, current_url)
                        /\ current_url' = urljoin(current_url, location)
                        /\ redirect_count' = redirect_count + 1
                        /\ h_pc' = "loop"
                        /\ h_obs' = [obs EXCEPT
                                        !.followed = Append(@, current_url),
                                        !.loopTarget = @ \/ target = current_url
                                            \/ \E k \in 1..Len(redirects) :
                                                  redirects[k] = target]
                        /\ UNCHANGED <<h_ret, h_raised>>
    /\ UNCHANGED <<HAS_AIOHTTP, max_redirects>>

\* Any other response: the final result.
HttpFinalResponse ==
    /\ h_pc = "await"
    /\ \E status \in Statuses \ RedirectStatuses, total \in Times, size \in 0..1 :
          /\ h_ret' = HttpFinal(status, 0, total, size, redirects)
          /\ h_obs' = [h_obs EXCEPT !.lastStatus = status]
    /\ h_pc' = "done"
    /\ UNCHANGED <<HAS_AIOHTTP, max_redirects, redirect_count, current_url, redirects,
                   h_raised>>

NextHttp ==
    \/ HttpCall
    \/ HttpSetup
    \/ HttpSetupFails
    \/ HttpLoopHead
    \/ HttpRequest
    \/ HttpRequestFails
    \/ HttpRedirectResponse
    \/ HttpFinalResponse

\* ---------------------------- async_test_dns_server: the DNS stage
\* The domains of a run, the elapsed values a successful attempt may report
\* and the answers the resolver may give for each domain (the second domain
\* has one of each, which keeps the runs over two domains small).
DomainList == <<"a.example", "b.example">>
ElapsedValues(d) == IF d = "a.example" THEN {1, 3} ELSE {3}
DomainAnswers(d) ==
    IF d = "a.example"
    THEN { <<"198.51.100.1">>, <<"198.51.100.2", "198.51.100.1", "198.51.100.2">> }
    ELSE { <<"203.0.113.5", "198.51.100.2">> }

\* What asyncio.gather hands back for one task: the dictionary the task
\* returned, or the exception it raised.
Pending == [type |-> "pending", value |-> NoOutcome]
Returned(outcome) == [type |-> "dict", value |-> outcome]
Raised(text) == [type |-> "Exception", value |-> FailedOutcome("<raised>", UnknownMsg(text))]

TaskResults(d) ==
    { Returned(SuccessOutcome(t, ips)) : t \in ElapsedValues(d), ips \in DomainAnswers(d) }
    \cup { Returned(FailedOutcome("TIMEOUT", TimeoutMsg(0, 1))), Raised(<<"boom">>) }

\* Rationals, as numerator and denominator; a denominator of 0 is None.
NoneQ == [num |-> 0, den |-> 0]
ZeroQ == [num |-> 0, den |-> 1]

RECURSIVE SumSeq(_)
SumSeq(sq) == IF sq = <<>> THEN 0 ELSE Head(sq) + SumSeq(Tail(sq))

RECURSIVE SumSquares(_)
SumSquares(sq) == IF sq = <<>> THEN 0 ELSE Head(sq) * Head(sq) + SumSquares(Tail(sq))

MinSeq(sq) == CHOOSE x \in { sq[k] : k \in 1..Len(sq) } : \A k \in 1..Len(sq) : x <= sq[k]
MaxSeq(sq) == CHOOSE x \in { sq[k] : k \in 1..Len(sq) } : \A k \in 1..Len(sq) : x >= sq[k]

\* statistics.mean
Mean(sq) == [num |-> SumSeq(sq), den |-> Len(sq)]

\* statistics.stdev, as its square: (n * sum(x^2) - sum(x)^2) / (n * (n - 1))
StdevSquared(sq) ==
    [num |-> Len(sq) * SumSquares(sq) - SumSeq(sq) * SumSeq(sq),
     den |-> Len(sq) * (Len(sq) - 1)]

\* valid_times = [t for t in domain_times if t is not None]
RECURSIVE ValidTimes(_)
ValidTimes(times) ==
    IF times = <<>> THEN <<>>
    ELSE IF Head(times) # None
         THEN <<Head(times)>> \o ValidTimes(Tail(times))
         ELSE ValidTimes(Tail(times))

\* "std": statistics.stdev(valid_times) if len(valid_times) > 1 else 0
StdAlwaysStdev(valid) == StdevSquared(valid)

Std(valid) == IF Len(valid) > 1 THEN StdevSquared(valid) ELSE ZeroQ

\* The stats dictionary of one domain (http_stats, empty here, is filled by
\* the HTTP stage).
DomainStats(domain_times, all_ips) ==
    LET valid_times == ValidTimes(domain_times)
    IN  IF valid_times # <<>>
        THEN [min |-> MinSeq(valid_times),
              max |-> MaxSeq(valid_times),
              avg |-> Mean(valid_times),
              std |-> Std(valid_times),
              success_rate |-> [num |-> Len(valid_times) * 100, den |-> Len(domain_times)],
              times |-> domain_times,
              resolved_ips |-> all_ips]
        ELSE [min |-> None,
              max |-> None,
              avg |-> NoneQ,
              std |-> NoneQ,
              success_rate |-> ZeroQ,
              times |-> domain_times,
              resolved_ips |-> all_ips]

\* domain_times = [], at the top of the body of the loop over domains: the
\* name is bound to a new list, whatever the last pass left in it.
NewDomainTimesCarried(carried) == carried

NewDomainTimes(carried) == <<>>

\* all_ips = set(), at the top of the body of the loop over domains
NewAllIpsCarried(carried) == carried

NewAllIps(carried) == {}

\* for ip in ips: if ip: all_ips.add(ip)
TruthyIps(ips) == { ips[k] : k \in 1..Len(ips) } \ {EmptyIP}

\* error_msg = result.get("error_msg", result.get("error", ...))
ErrorText(outcome) ==
    IF outcome.error_msg.kind # "absent"
    THEN outcome.error_msg
    ELSE [kind |-> "error", text |-> <<outcome.error>>, a |-> 0, n |-> 0]

\* The body of `for i, result in enumerate(query_results)` for item i (from 1):
\* acc holds domain_times, all_ips, the errors appended and completed_queries.
ProcessItem(acc, i, result, domain) ==
    LET counted == [acc EXCEPT !.completed = @ + 1]
    IN  IF result.type = "Exception"
        THEN [counted EXCEPT
                 !.errors = Append(@, [domain |-> domain, test_num |-> i - 1,
                                       error |-> result.value.error_msg]),
                 !.times = Append(@, None)]
        ELSE IF result.value.error # "none" \/ result.value.elapsed = None
             THEN [counted EXCEPT
                      !.errors = Append(@, [domain |-> domain, test_num |-> i - 1,
                                            error |-> ErrorText(result.value)]),
                      !.times = Append(@, None)]
             ELSE [counted EXCEPT
                      !.times = Append(@, result.value.elapsed),
                      !.ips = @ \cup TruthyIps(result.value.ips)]

RECURSIVE ProcessItems(_, _, _, _, _)
ProcessItems(acc, i, upto, query_results, domain) ==
    IF i > upto THEN acc
    ELSE ProcessItems(ProcessItem(acc, i, query_results[i], domain), i + 1, upto,
                      query_results, domain)

\* asyncio.gather(*tasks, return_exceptions=True): the result of task i goes to
\* position i, and an exception of a task is a result, not raised.
Deliver(query_results, i, result) == [query_results EXCEPT ![i] = result]

GatherRaisesTaskException(query_results) ==
    \E k \in 1..Len(query_results) : query_results[k].type = "Exception"

GatherRaises(query_results) == FALSE

\* Where the processing of the gathered results can raise: at the print that
\* opens the handling of item `at` (nothing of the item is recorded yet), or
\* at the progress print that closes it.
NoRaise == [at |-> 0, where |-> "none"]
RaisePoints(n) == {NoRaise} \cup [at : 1..n, where : {"item", "progress"}]

\* The progress bar is printed after every fifth query and after the last one.
ProgressPrinted(completed, total) == (completed % 5 = 0) \/ (completed = total)

\* except Exception: for _ in range(num_tests): domain_times.append(None)
RECURSIVE Nones(_)
Nones(n) == IF n = 0 THEN <<>> ELSE <<None>> \o Nones(n - 1)

ExceptHandler(times, n) == times \o Nones(n)

\* The try block and its handler: what the batch of one domain leaves.
ProcessBatch(acc, query_results, domain, n, raise, gatherRaised) ==
    IF gatherRaised
    THEN [acc EXCEPT !.times = ExceptHandler(@, n)]
    ELSE IF raise.where = "none"
    THEN ProcessItems(acc, 1, n, query_results, domain)
    ELSE LET upto == IF raise.where = "item" THEN raise.at - 1 ELSE raise.at
             before == ProcessItems(acc, 1, upto, query_results, domain)
             at == IF raise.where = "item"
                   THEN [before EXCEPT !.completed = @ + 1]
                   ELSE before
         IN  [at EXCEPT !.times = ExceptHandler(@, n)]

VARIABLES
    num_tests,      \* the num_tests argument
    domains,        \* the domains argument
    b_pc,           \* where the evaluation is
    domain_idx,     \* the loop variable over domains (from 1)
    query_results,  \* what gather has collected for the tasks of this domain
    completed_queries,
    results,        \* the dictionary results: domain_stats, all_times, errors
    all_ips_across_domains,
    b_obs           \* per domain: what each task ended with, where processing raised

batchVars ==
    <<num_tests, domains, b_pc, domain_idx, query_results, completed_queries,
      results, all_ips_across_domains, b_obs>>

EmptyFunction == [x \in {} |-> 0]
Extend(f, key, value) == [x \in (DOMAIN f) \cup {key} |-> IF x = key THEN value ELSE f[x]]

Prefixes(sq) == { SubSeq(sq, 1, k) : k \in 0..Len(sq) }

InitBatch ==
    /\ num_tests \in 0..MaxTests
    /\ domains \in Prefixes(DomainList)
    /\ b_pc = "loop"
    /\ domain_idx = 1
    /\ query_results = <<>>
    /\ completed_queries = 0
    /\ results = [domain_stats |-> EmptyFunction, all_times |-> <<>>, errors |-> <<>>]
    /\ all_ips_across_domains = {}
    /\ b_obs = [outcomes |-> [k \in 1..num_tests |-> Pending], batches |-> EmptyFunction]

\* for domain_idx, domain in enumerate(domains): create the num_tests tasks
\* and await gather; after the last domain the DNS stage is over.
StartDomain ==
    /\ b_pc = "loop"
    /\ IF domain_idx <= Len(domains)
       THEN /\ b_pc' = "gather"
            /\ query_results' = [k \in 1..num_tests |-> Pending]
            /\ b_obs' = [b_obs EXCEPT !.outcomes = [k \in 1..num_tests |-> Pending]]
       ELSE /\ b_pc' = "dns_done"
            /\ UNCHANGED <<query_results, b_obs>>
    /\ UNCHANGED <<num_tests, domains, domain_idx, completed_queries, results,
                   all_ips_across_domains>>

\* One task of the batch ends, in any order: async_resolve_domain returned a
\* dictionary or raised.
TaskEnds ==
    /\ b_pc = "gather"
    /\ \E i \in 1..num_tests, r \in TaskResults(domains[domain_idx]) :
          /\ b_obs.outcomes[i] = Pending
          /\ b_obs' = [b_obs EXCEPT !.outcomes[i] = r]
          /\ query_results' = Deliver(query_results, i, r)
    /\ UNCHANGED <<num_tests, domains, b_pc, domain_idx, completed_queries, results,
                   all_ips_across_domains>>

\* gather returns: the loop over query_results, the statistics of the domain,
\* results["domain_stats"][domain] and the next domain.
GatherReturns ==
    /\ b_pc = "gather"
    /\ \A k \in 1..num_tests : b_obs.outcomes[k] # Pending
    /\ \E raise \in RaisePoints(num_tests) :
          LET domain == domains[domain_idx]
              total_queries == Len(domains) * num_tests
              previous == IF domain_idx > 1
                          THEN results.domain_stats[domains[domain_idx - 1]].times
                          ELSE <<>>
              acc0 == [times |-> NewDomainTimes(previous),
                       ips |-> NewAllIps(all_ips_across_domains),
                       errors |-> results.errors,
                       completed |-> completed_queries]
              gatherRaised == GatherRaises(query_results)
              acc == ProcessBatch(acc0, query_results, domain, num_tests, raise, gatherRaised)
              stats == DomainStats(acc.times, acc.ips)
          IN  /\ raise.where = "progress" =>
                    ProgressPrinted(completed_queries + raise.at, total_queries)
              /\ gatherRaised => raise = NoRaise
              /\ results' = [domain_stats |-> Extend(results.domain_stats, domain, stats),
                             all_times |-> results.all_times \o ValidTimes(acc.times),
                             errors |-> acc.errors]
              /\ completed_queries' = acc.completed
              /\ all_ips_across_domains' = all_ips_across_domains \cup (acc.ips \ {EmptyIP})
              /\ b_obs' = [b_obs EXCEPT !.batches =
                              Extend(@, domain, [outcomes |-> b_obs.outcomes,
                                                 raise |-> raise,
                                                 gatherRaised |-> gatherRaised])]
    /\ b_pc' = "loop"
    /\ domain_idx' = domain_idx + 1
    /\ UNCHANGED <<num_tests, domains, query_results>>

NextBatch ==
    \/ StartDomain
    \/ TaskEnds
    \/ GatherReturns

IdleBatch ==
    /\ num_tests = 0
    /\ domains = <<>>
    /\ b_pc = "idle"
    /\ domain_idx = 1
    /\ query_results = <<>>
    /\ completed_queries = 0
    /\ results = [domain_stats |-> EmptyFunction, all_times |-> <<>>, errors |-> <<>>]
    /\ all_ips_across_domains = {}
    /\ b_obs = [outcomes |-> <<>>, batches |-> EmptyFunction]

\* ------------------------------- the aggregation of one domain, by itself
\* The body of the loop over domains from the gathered results on (the loop
\* over query_results run to its end, then the statistics), applied to one
\* fixed sequence of results once and then once more.
VARIABLES
    g_pc,            \* how many passes are done
    g_query_results, \* the fixed sequence of results
    g_domain_times,  \* the local domain_times as the last pass left it
    g_all_ips,       \* the local all_ips as the last pass left it
    g_all_times,     \* results["all_times"]
    g_stats          \* the stats dictionaries the passes produced, in order

aggVars == <<g_pc, g_query_results, g_domain_times, g_all_ips, g_all_times, g_stats>>

AggregatedDomain == "a.example"

InitAggregate ==
    /\ g_pc = 0
    /\ g_query_results \in SeqsUpTo(TaskResults(AggregatedDomain), MaxTests)
    /\ g_domain_times = <<>>
    /\ g_all_ips = {}
    /\ g_all_times = <<>>
    /\ g_stats = <<>>

IdleAggregate ==
    /\ g_pc = 2
    /\ g_query_results = <<>>
    /\ g_domain_times = <<>>
    /\ g_all_ips = {}
    /\ g_all_times = <<>>
    /\ g_stats = <<>>

Aggregate ==
    /\ g_pc < 2
    /\ LET n == Len(g_query_results)
           acc0 == [times |-> NewDomainTimes(g_domain_times),
                    ips |-> NewAllIps(g_all_ips),
                    errors |-> <<>>,
                    completed |-> 0]
           acc == ProcessBatch(acc0, g_query_results, AggregatedDomain, n, NoRaise,
                               GatherRaises(g_query_results))
           stats == DomainStats(acc.times, acc.ips)
       IN  /\ g_stats' = Append(g_stats, stats)
           /\ g_domain_times' = acc.times
           /\ g_all_ips' = acc.ips
           /\ g_all_times' = g_all_times \o ValidTimes(acc.times)
    /\ g_pc' = g_pc + 1
    /\ UNCHANGED g_query_results

NextAggregate == Aggregate

\* ------------------ async_test_all_dns_servers: the resolvers, side by side
\* Every resolver is evaluated by its own async_test_dns_server task, all under
\* one gather. An evaluation gives way to the others wherever it awaits: at
\* the gather of a domain's queries and inside an HTTP probe.
ServerList == <<"9.9.9.9", "1.1.1.1">>
Servers == { ServerList[k] : k \in 1..Len(ServerList) }

\* list(all_ips): the addresses of the set, each once, in the order the set
\* happens to iterate in.
ListOrders(ips) ==
    { sq \in [1..Cardinality(ips) -> ips] :
         \A i \in 1..Cardinality(ips), j \in 1..Cardinality(ips) : sq[i] = sq[j] => i = j }

\* What the DNS stage may leave as the resolved addresses of a domain: none,
\* or one or two for the first domain; none, or one that the first domain may
\* have too, for the second.
StageAnswers(d) ==
    IF d = "a.example"
    THEN { {}, {"198.51.100.1"}, {"198.51.100.1", "198.51.100.2"} }
    ELSE { {}, {"198.51.100.2"} }

\* What one HTTP probe may return, and what may leave it as an exception.
ProbeResults == { HttpFinal(200, 0, 1, 1, <<>>), HttpFailed(<<"timeout">>, <<>>) }
ProbeExceptions == { <<"boom">> }

\* asyncio.Semaphore: acquire waits while the value is 0, else takes one off;
\* release puts one back. `async with` releases however the body is left.
SemaphoreNeverLocked(value) == FALSE

SemaphoreAlwaysLocked(value) == TRUE

SemaphoreLocked(value) == value <= 0

ReleasedOnReturnOnly(exit) == exit = "return"

ReleasedOnExit(exit) == TRUE

\* http_test_tasks: one (domain, ip_address) per resolved address of every
\* domain, in the order of results["domain_stats"].
HttpTestTasksFirstDomain(domain_stats, ds) ==
    IF ds = <<>> THEN <<>>
    ELSE LET resolved_ips == domain_stats[Head(ds)].resolved_ips
         IN  [k \in 1..Len(resolved_ips) |->
                 [domain |-> Head(ds), ip_address |-> resolved_ips[k]]]

RECURSIVE HttpTestTasks(_, _)
HttpTestTasks(domain_stats, ds) ==
    IF ds = <<>> THEN <<>>
    ELSE LET resolved_ips == domain_stats[Head(ds)].resolved_ips
         IN  [k \in 1..Len(resolved_ips) |->
                 [domain |-> Head(ds), ip_address |-> resolved_ips[k]]]
             \o HttpTestTasks(domain_stats, Tail(ds))

InitHttpTestStats(enabled) ==
    [enabled |-> enabled, total_ips |-> 0, tested_ips |-> 0, successful_ips |-> 0,
     failed_ips |-> 0, errors |-> <<>>]

\* except Exception around `await task`: the text goes to the errors of
\* http_test_stats, and nothing is appended to http_results.
TaskErrorRecorded(ev, task, text) ==
    [ev EXCEPT !.http_test_stats.errors = Append(@, <<"task error">> \o text)]

\* The loop over http_results: the counters and http_stats[ip_address].
RECURSIVE FoldHttpResults(_, _)
FoldHttpResults(ev, http_results) ==
    IF http_results = <<>> THEN ev
    ELSE LET r == Head(http_results)
             counted == [ev EXCEPT
                 !.http_test_stats.total_ips = @ + 1,
                 !.http_test_stats.tested_ips = @ + 1,
                 !.http_test_stats.successful_ips = IF r.http_result.success THEN @ + 1 ELSE @,
                 !.http_test_stats.failed_ips = IF r.http_result.success THEN @ ELSE @ + 1]
             stored == IF r.domain \in DOMAIN counted.domain_stats
                       THEN [counted EXCEPT !.domain_stats[r.domain].http_stats =
                                Extend(@, r.ip_address, r.http_result)]
                       ELSE counted
         IN  FoldHttpResults(stored, Tail(http_results))

VARIABLES
    enable_http_test,     \* the enable_http_test argument
    max_http_concurrency, \* the max_http_concurrency argument
    evals,                \* per resolver: the locals of its async_test_dns_server
    final_results         \* what async_test_all_dns_servers returns (<<>> until then)

stageVars == <<enable_http_test, max_http_concurrency, evals, final_results>>

InitEval(enabled, permits) ==
    [pc |-> "dns",
     domain_idx |-> 1,
     domain_stats |-> EmptyFunction,
     all_ips_across_domains |-> {},
     http_semaphore |-> IF enabled THEN permits ELSE None,
     http_test_tasks |-> <<>>,
     task_idx |-> 1,
     task_pc |-> "new",
     http_results |-> <<>>,
     http_test_stats |-> InitHttpTestStats(enabled),
     obs |-> [holding |-> 0, probes |-> 0, unguarded |-> 0, raised |-> {},
              exits |-> {}]]

InitStage ==
    /\ enable_http_test \in BOOLEAN
    /\ max_http_concurrency \in 0..MaxConcurrency
    /\ evals = [s \in Servers |-> InitEval(enable_http_test, max_http_concurrency)]
    /\ final_results = <<>>

IdleStage ==
    /\ enable_http_test = FALSE
    /\ max_http_concurrency = 0
    /\ evals = [s \in {} |-> InitEval(FALSE, 0)]
    /\ final_results = <<>>

\* The DNS stage of one domain ends (its gather returned and its stats are
\* stored). After the last domain the evaluation goes on, without awaiting,
\* to `if enable_http_test and all_ips_across_domains` and builds the tasks.
DnsDomainDone(s) ==
    /\ s \in DOMAIN evals
    /\ evals[s].pc = "dns"
    /\ \E ips \in StageAnswers(DomainList[evals[s].domain_idx]) :
       \E resolved_ips \in ListOrders(ips) :
          LET ev == evals[s]
              domain == DomainList[ev.domain_idx]
              stats == Extend(ev.domain_stats, domain,
                              [resolved_ips |-> resolved_ips, http_stats |-> EmptyFunction])
              all_ips == ev.all_ips_across_domains \cup ips
              tasks == HttpTestTasks(stats, DomainList)
              last == ev.domain_idx = Len(DomainList)
          IN  evals' = [evals EXCEPT ![s] =
                 [ev EXCEPT
                    !.domain_stats = stats,
                    !.all_ips_across_domains = all_ips,
                    !.domain_idx = @ + 1,
                    !.http_test_tasks = IF last /\ enable_http_test /\ all_ips # {}
                                        THEN tasks ELSE <<>>,
                    !.pc = IF ~last THEN "dns"
                           ELSE IF enable_http_test /\ all_ips # {} /\ tasks # <<>>
                                THEN "http" ELSE "done"]]
    /\ UNCHANGED <<enable_http_test, max_http_concurrency, final_results>>

\* `await task` starts _test_ip_with_semaphore for the next task: it enters
\* `async with http_semaphore` and, once inside, issues the probe.
ProbeStart(s) ==
    /\ s \in DOMAIN evals
    /\ evals[s].pc = "http"
    /\ evals[s].task_pc = "new"
    /\ LET ev == evals[s]
       IN  evals' = [evals EXCEPT ![s] =
              IF ev.http_semaphore # None
              THEN IF SemaphoreLocked(ev.http_semaphore)
                   THEN [ev EXCEPT !.task_pc = "waiting"]
                   ELSE [ev EXCEPT !.http_semaphore = @ - 1,
                                   !.task_pc = "probing",
                                   !.obs.holding = @ + 1,
                                   !.obs.probes = @ + 1]
              ELSE [ev EXCEPT !.task_pc = "probing",
                              !.obs.probes = @ + 1,
                              !.obs.unguarded = @ + 1]]
    /\ UNCHANGED <<enable_http_test, max_http_concurrency, final_results>>

\* Leaving `async with`: the permit goes back.
Leave(ev, exit) ==
    IF ev.http_semaphore # None /\ ReleasedOnExit(exit)
    THEN [ev EXCEPT !.http_semaphore = @ + 1,
                    !.obs.holding = @ - 1,
                    !.obs.exits = @ \cup {exit}]
    ELSE [ev EXCEPT !.obs.exits = @ \cup {exit}]

\* After a task: the next one, or the loop over http_results and the return.
NextTask(ev) ==
    IF ev.task_idx < Len(ev.http_test_tasks)
    THEN [ev EXCEPT !.task_idx = @ + 1, !.task_pc = "new"]
    ELSE [FoldHttpResults(ev, ev.http_results) EXCEPT !.pc = "done", !.task_pc = "ended"]

\* The probe of the awaited task returns its dictionary.
ProbeReturns(s) ==
    /\ s \in DOMAIN evals
    /\ evals[s].pc = "http"
    /\ evals[s].task_pc = "probing"
    /\ \E http_result \in ProbeResults :
          LET ev == Leave(evals[s], "return")
              task == ev.http_test_tasks[ev.task_idx]
              got == [ev EXCEPT !.http_results =
                         Append(@, [domain |-> task.domain, ip_address |-> task.ip_address,
                                    http_result |-> http_result])]
          IN  evals' = [evals EXCEPT ![s] = NextTask(got)]
    /\ UNCHANGED <<enable_http_test, max_http_concurrency, final_results>>

\* The awaited task raises an Exception.
ProbeRaises(s) ==
    /\ s \in DOMAIN evals
    /\ evals[s].pc = "http"
    /\ evals[s].task_pc = "probing"
    /\ \E text \in ProbeExceptions :
          LET ev == Leave(evals[s], "exception")
              task == ev.http_test_tasks[ev.task_idx]
              noted == [TaskErrorRecorded(ev, task, text) EXCEPT !.obs.raised = @ \cup {task}]
          IN  evals' = [evals EXCEPT ![s] = NextTask(noted)]
    /\ UNCHANGED <<enable_http_test, max_http_concurrency, final_results>>

\* The evaluation is cancelled while it awaits a probe (CancelledError is not
\* an Exception: it leaves `async with` and the evaluation).
ProbeCancelled(s) ==
    /\ s \in DOMAIN evals
    /\ evals[s].pc = "http"
    /\ evals[s].task_pc \in {"probing", "waiting"}
    /\ LET ev == IF evals[s].task_pc = "probing"
                 THEN Leave(evals[s], "cancelled")
                 ELSE evals[s]
       IN  evals' = [evals EXCEPT ![s] = [ev EXCEPT !.pc = "cancelled", !.task_pc = "ended"]]
    /\ UNCHANGED <<enable_http_test, max_http_concurrency, final_results>>

\* An Exception leaves the evaluation of a resolver: a console write outside
\* the try blocks raises, in the loop over domains or between two HTTP tasks.
\* Its locals are gone; gather keeps the exception as its result.
EvalRaises(s) ==
    /\ s \in DOMAIN evals
    /\ \/ evals[s].pc = "dns"
       \/ evals[s].pc = "http" /\ evals[s].task_pc = "new"
    /\ evals' = [evals EXCEPT ![s] =
          [InitEval(enable_http_test, max_http_concurrency) EXCEPT
              !.pc = "raised", !.task_pc = "ended", !.obs = evals[s].obs]]
    /\ UNCHANGED <<enable_http_test, max_http_concurrency, final_results>>

\* The record appended for a resolver whose task ended with an Exception.
FailedServerResult(dns_server, text, ev) ==
    [dns_server |-> dns_server, domain_stats |-> EmptyFunction, all_times |-> <<>>,
     errors |-> <<text>>, has_http_test_stats |-> FALSE]

\* The dictionary an evaluation returns (all_times is not followed here).
ServerResult(dns_server, ev) ==
    [dns_server |-> dns_server, domain_stats |-> ev.domain_stats, all_times |-> <<>>,
     errors |-> <<>>, has_http_test_stats |-> TRUE]

\* gather(*tasks, return_exceptions=True) returns once every evaluation has
\* ended; final_results gets, in the order of dns_servers, the dictionary of
\* the evaluation or the record built for its exception.
RunCompletes ==
    /\ final_results = <<>>
    /\ DOMAIN evals = Servers
    /\ \A s \in Servers : evals[s].pc \in {"done", "raised"}
    /\ final_results' =
          [i \in 1..Len(ServerList) |->
              IF evals[ServerList[i]].pc = "raised"
              THEN FailedServerResult(ServerList[i], <<"boom">>, evals[ServerList[i]])
              ELSE ServerResult(ServerList[i], evals[ServerList[i]])]
    /\ UNCHANGED <<enable_http_test, max_http_concurrency, evals>>

NextStage ==
    \/ \E s \in Servers :
          \/ DnsDomainDone(s)
          \/ ProbeStart(s)
          \/ ProbeReturns(s)
          \/ ProbeRaises(s)
          \/ ProbeCancelled(s)
          \/ EvalRaises(s)
    \/ RunCompletes

\* ------------------------------------------------- print_summary_table
\* Arithmetic on the rationals: a denominator of 0 with a numerator of 1 is
\* float("inf").
InfQ == [num |-> 1, den |-> 0]
OneQ == [num |-> 1, den |-> 1]

Abs(x) == IF x < 0 THEN 0 - x ELSE x

RECURSIVE GCD(_, _)
GCD(a, b) == IF b = 0 THEN a ELSE GCD(b, a % b)

QNorm(q) ==
    LET g == GCD(Abs(q.num), q.den)
    IN  IF g = 0 THEN q ELSE [num |-> q.num \div g, den |-> q.den \div g]

QAdd(a, b) == QNorm([num |-> a.num * b.den + b.num * a.den, den |-> a.den * b.den])
QScale(q, p, r) == QNorm([num |-> q.num * p, den |-> q.den * r])
QNeg(q) == [num |-> 0 - q.num, den |-> q.den]
QLess(a, b) == a.num * b.den < b.num * a.den
QEq(a, b) == a.num * b.den = b.num * a.den
QLeq(a, b) == QLess(a, b) \/ QEq(a, b)

\* max(0, min(1, x))
Clamp01(q) == IF QLess(q, ZeroQ) THEN ZeroQ ELSE IF QLess(OneQ, q) THEN OneQ ELSE q

\* dns_time_score = max(0, min(1, 1.0 - (avg_time / 5.0)))
DnsTimeScoreRising(avg_time) ==
    Clamp01([num |-> avg_time.num, den |-> 5 * avg_time.den])

DnsTimeScore(avg_time) ==
    Clamp01([num |-> 5 * avg_time.den - avg_time.num, den |-> 5 * avg_time.den])

\* dns_score = dns_time_score * 0.7 + dns_success_score * 0.3
DnsScore(avg_time, success_rate) ==
    QAdd(QScale(DnsTimeScore(avg_time), 7, 10), QScale(success_rate, 3, 1000))

\* http_time_score = 0, or max(0, min(1, 1.0 - (avg_http_time / 30.0)))
HttpTimeScore(avg_http_time) ==
    IF avg_http_time = NoneQ THEN ZeroQ
    ELSE Clamp01([num |-> 30 * avg_http_time.den - avg_http_time.num,
                  den |-> 30 * avg_http_time.den])

\* http_score = http_time_score * 0.5 + http_success_score * 0.5
HttpScore(avg_http_time, http_success_rate) ==
    QAdd(QScale(HttpTimeScore(avg_http_time), 1, 2), QScale(http_success_rate, 1, 200))

\* combined_score = dns_score * 0.4 + http_score * 0.6
CombinedScore(avg_time, success_rate, avg_http_time, http_success_rate) ==
    QAdd(QScale(DnsScore(avg_time, success_rate), 2, 5),
         QScale(HttpScore(avg_http_time, http_success_rate), 3, 5))

\* The http_stats of a row: None, or the dictionary built from
\* result["http_test_stats"] and the successful entries of http_stats.
NoHttpStats ==
    [present |-> FALSE, enabled |-> FALSE, success_rate |-> ZeroQ,
     avg_total_time |-> NoneQ, successful_tests |-> 0, failed_tests |-> 0]

RowHttpStats(result, enable) ==
    IF enable /\ result.http_test_stats.present
    THEN [present |-> TRUE,
          enabled |-> result.http_test_stats.enabled,
          success_rate |->
              IF result.http_test_stats.enabled /\ result.http_test_stats.total_ips > 0
              THEN [num |-> result.http_test_stats.successful_ips * 100,
                    den |-> result.http_test_stats.total_ips]
              ELSE ZeroQ,
          avg_total_time |->
              IF result.http_test_stats.enabled /\ result.http_times # <<>>
              THEN Mean(result.http_times) ELSE NoneQ,
          successful_tests |-> result.http_test_stats.successful_ips,
          failed_tests |-> result.http_test_stats.failed_ips]
    ELSE NoHttpStats

\* One entry of table_data.
TableRow(result, total_queries, enable) ==
    LET all_times == result.all_times
        success_rate == IF total_queries > 0
                        THEN [num |-> Len(all_times) * 100, den |-> total_queries]
                        ELSE ZeroQ
        avg_time == IF all_times # <<>> THEN Mean(all_times) ELSE NoneQ
        http_stats == RowHttpStats(result, enable)
    IN  [dns_server |-> result.dns_server,
         avg_time |-> avg_time,
         success_rate |-> success_rate,
         successful_queries |-> Len(all_times),
         http_stats |-> http_stats,
         combined_score |->
             IF http_stats.present /\ avg_time # NoneQ /\ http_stats.enabled
             THEN CombinedScore(avg_time, success_rate, http_stats.avg_total_time,
                                http_stats.success_rate)
             ELSE NoneQ]

\* sort_key: (-score, avg or inf) for a row with a combined score when the
\* HTTP stage is enabled, else (avg or inf, -success_rate).
AvgOrZero(avg) == IF avg = NoneQ THEN ZeroQ ELSE avg

AvgOrInfinity(avg) == IF avg = NoneQ THEN InfQ ELSE avg

ScoreKeyAscending(score) == score

ScoreKey(score) == QNeg(score)

sort_key(x, enable) ==
    IF enable /\ x.combined_score # NoneQ
    THEN <<ScoreKey(x.combined_score), AvgOrInfinity(x.avg_time)>>
    ELSE <<AvgOrInfinity(x.avg_time), QNeg(x.success_rate)>>

\* The order of two key tuples.
KeyLess(a, b) == QLess(a[1], b[1]) \/ (QEq(a[1], b[1]) /\ QLess(a[2], b[2]))

\* table_data.sort(key=sort_key): a stable sort, here by insertion, each row
\* behind the rows whose key is not greater.
RECURSIVE InsertRow(_, _, _)
InsertRow(sorted, x, enable) ==
    IF sorted = <<>> THEN <<x>>
    ELSE IF KeyLess(sort_key(x, enable), sort_key(Head(sorted), enable))
         THEN <<x>> \o sorted
         ELSE <<Head(sorted)>> \o InsertRow(Tail(sorted), x, enable)

RECURSIVE SortTable(_, _, _)
SortTable(sorted, rows, enable) ==
    IF rows = <<>> THEN sorted
    ELSE SortTable(InsertRow(sorted, Head(rows), enable), Tail(rows), enable)

\* The flag recommendable of the loop over table_data.
Recommendable(row, enable) ==
    IF enable
    THEN /\ row.avg_time # NoneQ
         /\ row.success_rate.num >= 50 * row.success_rate.den
         /\ (row.http_stats.present /\ row.http_stats.enabled) =>
               row.http_stats.success_rate.num >= 30 * row.http_stats.success_rate.den
    ELSE /\ row.avg_time # NoneQ
         /\ row.success_rate.num >= 50 * row.success_rate.den

\* The loop prints a recommendable row and stops after the third.
MaxRecommendations == 3

RECURSIVE Recommend(_, _, _)
Recommend(table, printed, enable) ==
    IF table = <<>> THEN printed
    ELSE IF Recommendable(Head(table), enable)
         THEN IF Len(printed) + 1 >= MaxRecommendations
              THEN Append(printed, Head(table).dns_server)
              ELSE Recommend(Tail(table), Append(printed, Head(table).dns_server), enable)
         ELSE Recommend(Tail(table), printed, enable)

\* The results the table is printed for: per resolver its successful times
\* out of MaxTests queries for each domain of DomainList (two of them slower
\* than the 5 seconds at which dns_time_score is 0), and what its HTTP stage
\* counted (nothing tested, one of four reachable, both of two).
RankedServers == <<"R1", "R2", "R3", "R4">>
RankAllTimes == { <<>>, <<2>>, <<1, 3>>, <<1, 1>> }
SlowTimes == { <<6, 6>>, <<7, 7>> }

HttpTestStats(total_ips, successful_ips) ==
    [present |-> TRUE, enabled |-> TRUE, total_ips |-> total_ips,
     successful_ips |-> successful_ips, failed_ips |-> total_ips - successful_ips]

NoHttpTestStats ==
    [present |-> FALSE, enabled |-> FALSE, total_ips |-> 0, successful_ips |-> 0,
     failed_ips |-> 0]

HttpOutcomes ==
    { [http_test_stats |-> HttpTestStats(0, 0), http_times |-> <<>>],
      [http_test_stats |-> HttpTestStats(4, 1), http_times |-> <<3>>],
      [http_test_stats |-> HttpTestStats(2, 2), http_times |-> <<3, 3>>] }

\* Without the HTTP stage http_test_stats is None; with it, the resolver
\* without a successful query is one whose evaluation raised, and its record
\* has no http_test_stats.
ResultProfiles(enable) ==
    IF ~enable
    THEN { [all_times |-> t, http_test_stats |-> NoHttpTestStats, http_times |-> <<>>] :
              t \in RankAllTimes \cup SlowTimes }
    ELSE { [all_times |-> t, http_test_stats |-> h.http_test_stats,
            http_times |-> h.http_times] : t \in RankAllTimes \ {<<>>}, h \in HttpOutcomes }
         \cup { [all_times |-> t, http_test_stats |-> HttpTestStats(2, 2),
                 http_times |-> <<3, 3>>] : t \in SlowTimes }
         \cup { [all_times |-> <<>>, http_test_stats |-> NoHttpTestStats,
                 http_times |-> <<>>] }

\* The result of resolver i of the configuration.
ResultOf(i, p) ==
    [dns_server |-> RankedServers[i], all_times |-> p.all_times,
     http_test_stats |-> p.http_test_stats, http_times |-> p.http_times]

VARIABLES
    k_pc,          \* "call" before print_summary_table, "done" after
    k_enable_http_test,
    k_results,     \* the results argument
    table_data,    \* the rows, sorted
    recommended,   \* the dns_server of the rows printed as recommendations
    no_recommendation \* the notice that nothing can be recommended was printed

rankVars ==
    <<k_pc, k_enable_http_test, k_results, table_data, recommended, no_recommendation>>

InitRank ==
    /\ k_pc = "call"
    /\ k_enable_http_test \in BOOLEAN
    /\ \E n \in 0..Len(RankedServers) :
          \E p \in [1..n -> ResultProfiles(k_enable_http_test)] :
             k_results = [i \in 1..n |-> ResultOf(i, p[i])]
    /\ table_data = <<>>
    /\ recommended = <<>>
    /\ no_recommendation = FALSE

IdleRank ==
    /\ k_pc = "idle"
    /\ k_enable_http_test = FALSE
    /\ k_results = <<>>
    /\ table_data = <<>>
    /\ recommended = <<>>
    /\ no_recommendation = FALSE

print_summary_table ==
    /\ k_pc = "call"
    /\ LET total_queries == MaxTests * Len(DomainList)
           rows == [i \in 1..Len(k_results) |->
                       TableRow(k_results[i], total_queries, k_enable_http_test)]
           sorted == SortTable(<<>>, rows, k_enable_http_test)
           printed == Recommend(sorted, <<>>, k_enable_http_test)
       IN  /\ table_data' = sorted
           /\ recommended' = printed
           /\ no_recommendation' = (Len(printed) = 0)
    /\ k_pc' = "done"
    /\ UNCHANGED <<k_enable_http_test, k_results>>

NextRank == print_summary_table

\* ------------------------------- DNSBenchmark._print_error_statistics
\* str.lower(), word by word (a word without capitals is left as it is).
Lower(word) ==
    CASE word = "NXDOMAIN" -> "nxdomain"
      [] word = "SERVFAIL" -> "servfail"
      [] word = "Domain" -> "domain"
      [] word = "Timeout" -> "timeout"
      [] word = "Connection" -> "connection"
      [] word = "DNS" -> "dns"
      [] OTHER -> word

LowerText(text) == [k \in 1..Len(text) |-> Lower(text[k])]

\* `phrase in error_msg`: the words of the phrase, next to each other.
ContainsPhrase(text, phrase) ==
    \E k \in 1..(Len(text) - Len(phrase) + 1) :
       SubSeq(text, k, k + Len(phrase) - 1) = phrase

\* The if/elif chain over the lowercased text.
Bucket(error_msg) ==
    IF ContainsPhrase(error_msg, <<"timeout">>) THEN "timeout"
    ELSE IF ContainsPhrase(error_msg, <<"nxdomain">>)
            \/ ContainsPhrase(error_msg, <<"domain", "not", "found">>) THEN "nxdomain"
    ELSE IF ContainsPhrase(error_msg, <<"no", "answer">>)
            \/ ContainsPhrase(error_msg, <<"no", "response">>) THEN "no_answer"
    ELSE IF ContainsPhrase(error_msg, <<"network">>)
            \/ ContainsPhrase(error_msg, <<"connection">>) THEN "network"
    ELSE "other"

Buckets == {"timeout", "nxdomain", "no_answer", "network", "other"}

\* The text of error_msg as the Resolution Probe and the DNS stage build it.
\* The Chinese words of the source are written in pinyin: "chaoshi" is the
\* word for a timeout, "weizhi-cuowu" the one for an unknown error.
RenderMsg(msg, domain, dns_server) ==
    CASE msg.kind = "timeout" ->
            <<"chaoshi", ToString(msg.a), "/", ToString(msg.n),
              domain, "@", dns_server>>
      [] msg.kind = "dns" -> msg.text
      [] msg.kind = "unknown" -> <<"weizhi-cuowu", domain, "@", dns_server, "-">> \o msg.text
      [] msg.kind = "default" -> <<"weizhi-cuowu">>
      [] OTHER -> msg.text

\* What a failed attempt may leave as its outcome; beside the failures of the
\* probe, two texts of the DNS library that name a timeout and a connection.
ReportFailures ==
    DnsFailures
    \cup [kind : {"dnserror"}, text : { <<"Timeout", "while", "contacting", "DNS", "servers">> }]
    \cup [kind : {"exception"}, text : { <<"Connection", "refused">> }]

ReportOutcomes ==
    { HandledOutcome(f, 0, 1) : f \in ReportFailures } \cup {DefaultOutcome, UnavailableOutcome}

\* An entry of result["errors"]: the dictionary the DNS stage appends for a
\* failed query (with, beside it, how the probe classified the attempt), or
\* the bare string of the record built for a resolver whose evaluation raised.
ErrorInfos ==
    { [type |-> "dict", domain |-> AggregatedDomain, test_num |-> t,
       error |-> RenderMsg(ErrorText(o), AggregatedDomain, ServerList[1]),
       classified |-> o.error] :
         o \in ReportOutcomes, t \in 0..(MaxTests - 1) }

StrError(text) ==
    [type |-> "str", domain |-> "", test_num |-> None, error |-> text,
     classified |-> "<raised>"]

\* for error_info in result["errors"]: error_info.get raises AttributeError
\* on a string.
RECURSIVE CountErrors(_, _)
CountErrors(acc, errors) ==
    IF errors = <<>> \/ acc.raised THEN acc
    ELSE LET error_info == Head(errors)
             b == Bucket(LowerText(error_info.error))
         IN  IF error_info.type # "dict"
             THEN [acc EXCEPT !.raised = TRUE]
             ELSE CountErrors([acc EXCEPT
                                  !.error_stats[b] = @ + 1,
                                  !.total_errors = @ + 1,
                                  !.counted = Append(@, [classified |-> error_info.classified,
                                                         error |-> error_info.error,
                                                         bucket |-> b])],
                              Tail(errors))

RECURSIVE CountResults(_, _)
CountResults(acc, rs) ==
    IF rs = <<>> \/ acc.raised THEN acc
    ELSE CountResults(CountErrors(acc, Head(rs).errors), Tail(rs))

VARIABLES
    e_pc,          \* where _print_error_statistics is
    e_results,     \* self.results: of each result, its errors
    error_stats,   \* the local error_stats
    total_errors,  \* the local total_errors
    e_raised,      \* an exception left the function
    e_counted      \* the errors counted, each with the bucket it went to

reportVars == <<e_pc, e_results, error_stats, total_errors, e_raised, e_counted>>

NoErrorStats == [b \in Buckets |-> 0]

\* The results of a run: the dictionary of an evaluation and, before or
\* after it, possibly the record of a resolver whose evaluation raised.
InitReport ==
    /\ e_pc = "call"
    /\ \E errors \in SeqsUpTo(ErrorInfos, 2) :
          LET evaluated == [dns_server |-> ServerList[1], errors |-> errors]
              failed == [dns_server |-> ServerList[2], errors |-> <<StrError(<<"boom">>)>>]
          IN  e_results \in { <<evaluated>>, <<evaluated, failed>>, <<failed, evaluated>> }
    /\ error_stats = NoErrorStats
    /\ total_errors = 0
    /\ e_raised = FALSE
    /\ e_counted = <<>>

IdleReport ==
    /\ e_pc = "idle"
    /\ e_results = <<>>
    /\ error_stats = NoErrorStats
    /\ total_errors = 0
    /\ e_raised = FALSE
    /\ e_counted = <<>>

print_error_statistics ==
    /\ e_pc = "call"
    /\ LET acc == CountResults([error_stats |-> error_stats, total_errors |-> 0,
                                raised |-> FALSE, counted |-> <<>>], e_results)
       IN  /\ error_stats' = acc.error_stats
           /\ total_errors' = acc.total_errors
           /\ e_raised' = acc.raised
           /\ e_counted' = acc.counted
    /\ e_pc' = "done"
    /\ UNCHANGED e_results

NextReport == print_error_statistics

\* ------------------------------------------------ main and async_main
\* The process from the command line to its exit status. What the run has
\* written so far is followed as a set: the ranked summary, the detailed
\* report, the report file.
ExitUsage == 2
ExitInterrupt == 130
ExitFailure == 1
ExitDone == 0

\* The except clauses of async_main and of main, which are the same: a
\* KeyboardInterrupt gives 130, an Exception 1; a SystemExit passes through
\* with its own code.
MainHandlerCatchAll(raised) ==
    CASE raised = "SystemExit" -> ExitUsage
      [] OTHER -> ExitFailure

MainHandler(raised) ==
    CASE raised = "KeyboardInterrupt" -> ExitInterrupt
      [] raised = "Exception" -> ExitFailure
      [] OTHER -> ExitUsage

\* How a SIGINT reaches the program: as a KeyboardInterrupt raised in the
\* code that is running, or (asyncio.run of Python 3.11 on) as a cancellation
\* of the main task, which asyncio.run turns into a KeyboardInterrupt once
\* the task has ended.
SigintDeliveries == {"raise", "cancel"}

VARIABLES
    m_pc,          \* where the process is
    m_args,        \* the command line: valid, save_report; and HAS_AIODNS
    m_done,        \* the evaluations that have ended: a dictionary each, or
                   \* an Exception that the gather keeps as a result
    m_emitted,     \* what has been written: "summary", "report", "file"
    m_interrupt,   \* the SIGINT: where it arrived, how, and whether a
                   \* cancellation is still to be raised
    m_end,         \* how the process ended
    exit_status    \* the value given to sys.exit (None until then)

mainVars == <<m_pc, m_args, m_done, m_emitted, m_interrupt, m_end, exit_status>>

vars == <<resolveVars, httpVars, batchVars, aggVars, stageVars, rankVars, mainVars, reportVars>>

NoInterrupt == [at |-> "none", how |-> "none", pending |-> FALSE]

InitMain ==
    /\ m_pc = "parse"
    /\ m_args \in [valid : BOOLEAN, save_report : BOOLEAN, HAS_AIODNS : BOOLEAN]
    /\ m_done = <<>>
    /\ m_emitted = {}
    /\ m_interrupt = NoInterrupt
    /\ m_end = "none"
    /\ exit_status = None

IdleMain ==
    /\ m_pc = "idle"
    /\ m_args = [valid |-> TRUE, save_report |-> FALSE, HAS_AIODNS |-> TRUE]
    /\ m_done = <<>>
    /\ m_emitted = {}
    /\ m_interrupt = NoInterrupt
    /\ m_end = "none"
    /\ exit_status = None

\* async_main ends, by an exception or by a return of status: the process
\* ends. A main task that was cancelled meanwhile ends cancelled whatever it
\* returns, and asyncio.run raises KeyboardInterrupt into main.
MainExit(raised, end, status) ==
    /\ m_pc' = "exit"
    /\ IF m_interrupt.pending
       THEN /\ m_end' = "interrupt"
            /\ exit_status' = MainHandler("KeyboardInterrupt")
       ELSE /\ m_end' = end
            /\ exit_status' = IF raised = "none" THEN status ELSE MainHandler(raised)
    /\ m_interrupt' = [m_interrupt EXCEPT !.pending = FALSE]

\* A step that ends a stage and goes on to the next.
MainGoes(pc) ==
    /\ m_pc' = pc
    /\ UNCHANGED <<m_end, exit_status, m_interrupt>>

\* parse_args and the validation of the arguments: parser.error exits.
ParseArgs ==
    /\ m_pc = "parse"
    /\ IF m_args.valid THEN MainGoes("config") ELSE MainExit("SystemExit", "usage", None)
    /\ UNCHANGED <<m_args, m_done, m_emitted>>

\* The configuration is printed, DNSBenchmark is built, run_async is entered:
\* without aiodns it raises RuntimeError, which async_main catches; with a
\* cancellation pending its first await raises CancelledError.
StartRun ==
    /\ m_pc = "config"
    /\ IF m_args.HAS_AIODNS /\ ~m_interrupt.pending
       THEN MainGoes("measure")
       ELSE MainExit("Exception", "failure", None)
    /\ UNCHANGED <<m_args, m_done, m_emitted>>

\* The evaluation of one more resolver ends while the run awaits the gather.
EvaluationEnds ==
    /\ m_pc = "measure"
    /\ Len(m_done) < Len(ServerList)
    /\ \E type \in {"dict", "Exception"} : m_done' = Append(m_done, type)
    /\ UNCHANGED <<m_pc, m_args, m_emitted, m_interrupt, m_end, exit_status>>

\* run_async returns the results.
RunReturns ==
    /\ m_pc = "measure"
    /\ Len(m_done) = Len(ServerList)
    /\ MainGoes("summary")
    /\ UNCHANGED <<m_args, m_done, m_emitted>>

\* An Exception leaves run_async, print_summary_table or
\* print_detailed_report: except Exception of async_main.
MainRaises ==
    /\ m_pc \in {"measure", "summary", "report"}
    /\ MainExit("Exception", "failure", None)
    /\ UNCHANGED <<m_args, m_done, m_emitted>>

PrintSummary ==
    /\ m_pc = "summary"
    /\ m_emitted' = m_emitted \cup {"summary"}
    /\ MainGoes("report")
    /\ UNCHANGED <<m_args, m_done>>

\* print_detailed_report, then `if args.save_report`; without it return 0.
PrintReport ==
    /\ m_pc = "report"
    /\ m_emitted' = m_emitted \cup {"report"}
    /\ IF m_args.save_report
       THEN MainGoes("save")
       ELSE MainExit("none", "complete", ExitDone)
    /\ UNCHANGED <<m_args, m_done>>

\* save_results_to_file writes the file, or fails and returns False; then
\* return 0.
SaveReport ==
    /\ m_pc = "save"
    /\ \E written \in BOOLEAN :
          m_emitted' = IF written THEN m_emitted \cup {"file"} ELSE m_emitted
    /\ MainExit("none", "complete", ExitDone)
    /\ UNCHANGED <<m_args, m_done>>

\* The user presses Ctrl-C. Raised as KeyboardInterrupt it ends the process
\* at once; as a cancellation it ends the measurement at the await of the
\* gather (the evaluations are cancelled with it) and is pending elsewhere.
Interrupt ==
    /\ m_pc \in {"config", "measure", "summary", "report", "save"}
    /\ m_interrupt = NoInterrupt
    /\ \E how \in SigintDeliveries :
          IF how = "raise" \/ m_pc = "measure"
          THEN /\ m_pc' = "exit"
               /\ m_end' = "interrupt"
               /\ exit_status' = MainHandler("KeyboardInterrupt")
               /\ m_interrupt' = [at |-> m_pc, how |-> how, pending |-> FALSE]
          ELSE /\ m_interrupt' = [at |-> m_pc, how |-> how, pending |-> TRUE]
               /\ UNCHANGED <<m_pc, m_end, exit_status>>
    /\ UNCHANGED <<m_args, m_done, m_emitted>>

NextMain ==
    \/ ParseArgs
    \/ StartRun
    \/ EvaluationEnds
    \/ RunReturns
    \/ MainRaises
    \/ PrintSummary
    \/ PrintReport
    \/ SaveReport
    \/ Interrupt

Init == InitBatch /\ IdleResolve /\ IdleHttp /\ IdleAggregate /\ IdleStage /\ IdleRank /\ IdleMain /\ IdleReport

Next == NextBatch /\ UNCHANGED <<resolveVars, httpVars, aggVars, stageVars, rankVars, mainVars, reportVars>>

Spec == Init /\ [][Next]_vars

\* ------------------------------------------------------ the probes, alone
InitProbe ==
    /\ \/ InitResolve /\ IdleHttp
       \/ InitHttp /\ IdleResolve
    /\ IdleBatch
    /\ IdleAggregate
    /\ IdleStage
    /\ IdleRank /\ IdleMain /\ IdleReport

NextProbe ==
    \/ NextResolve /\ UNCHANGED <<httpVars, batchVars, aggVars, stageVars, rankVars, mainVars, reportVars>>
    \/ NextHttp /\ UNCHANGED <<resolveVars, batchVars, aggVars, stageVars, rankVars, mainVars, reportVars>>

SpecProbe == InitProbe /\ [][NextProbe]_vars

\* ------------------------------------------------- the aggregation, alone
InitAggregation ==
    InitAggregate /\ IdleResolve /\ IdleHttp /\ IdleBatch /\ IdleStage /\ IdleRank /\ IdleMain /\ IdleReport

NextAggregation ==
    NextAggregate /\ UNCHANGED <<resolveVars, httpVars, batchVars, stageVars, rankVars, mainVars, reportVars>>

SpecAggregate == InitAggregation /\ [][NextAggregation]_vars

\* ------------------------------------------- the resolvers, side by side
InitServers ==
    InitStage /\ IdleResolve /\ IdleHttp /\ IdleBatch /\ IdleAggregate /\ IdleRank /\ IdleMain /\ IdleReport

NextServers ==
    NextStage /\ UNCHANGED <<resolveVars, httpVars, batchVars, aggVars, rankVars, mainVars, reportVars>>

SpecServers == InitServers /\ [][NextServers]_vars

\* ------------------------------------------------- the summary, alone
InitSummary ==
    InitRank /\ IdleResolve /\ IdleHttp /\ IdleBatch /\ IdleAggregate /\ IdleStage /\ IdleMain
    /\ IdleReport

NextSummary ==
    NextRank /\ UNCHANGED <<resolveVars, httpVars, batchVars, aggVars, stageVars, mainVars,
                           reportVars>>

SpecSummary == InitSummary /\ [][NextSummary]_vars

\* ------------------------------------------------- the process, alone
InitProcess ==
    InitMain /\ IdleResolve /\ IdleHttp /\ IdleBatch /\ IdleAggregate /\ IdleStage /\ IdleRank
    /\ IdleReport

NextProcess ==
    NextMain /\ UNCHANGED <<resolveVars, httpVars, batchVars, aggVars, stageVars, rankVars,
                           reportVars>>

SpecMain == InitProcess /\ [][NextProcess]_vars

\* ------------------------------------------- the error report, alone
InitErrorReport ==
    InitReport /\ IdleResolve /\ IdleHttp /\ IdleBatch /\ IdleAggregate /\ IdleStage /\ IdleRank
    /\ IdleMain

NextErrorReport ==
    NextReport /\ UNCHANGED <<resolveVars, httpVars, batchVars, aggVars, stageVars, rankVars,
                             mainVars>>

SpecReport == InitErrorReport /\ [][NextErrorReport]_vars

\* ------------------------------------------------- a whole run, scheduled
\* The command line refuses a max_http_concurrency below 1. A run is followed
\* with the tightest semaphore it admits: the tasks of a resolver are awaited
\* one after the other, so a larger value leaves every step as it is.
MinConcurrency == 1

InitRun ==
    /\ \/ InitStage /\ max_http_concurrency = MinConcurrency /\ IdleResolve /\ IdleHttp
       \/ InitResolve /\ IdleHttp /\ IdleStage
       \/ InitHttp /\ IdleResolve /\ IdleStage
    /\ IdleBatch
    /\ IdleAggregate
    /\ IdleRank /\ IdleMain /\ IdleReport

ResolveStep ==
    NextResolve /\ UNCHANGED <<httpVars, batchVars, aggVars, stageVars, rankVars, mainVars, reportVars>>

HttpStep ==
    NextHttp /\ UNCHANGED <<resolveVars, batchVars, aggVars, stageVars, rankVars, mainVars, reportVars>>

NextRun ==
    \/ ResolveStep
    \/ HttpStep
    \/ NextServers

\* What the event loop does for the evaluation of one resolver once what it
\* awaits is there: the gather of a domain's queries returns, a task enters
\* the semaphore, the probe it awaits returns or raises.
EvalStep(s) ==
    /\ \/ DnsDomainDone(s)
       \/ ProbeStart(s)
       \/ ProbeReturns(s)
       \/ ProbeRaises(s)
    /\ UNCHANGED <<resolveVars, httpVars, batchVars, aggVars, rankVars, mainVars, reportVars>>

GatherStep ==
    RunCompletes /\ UNCHANGED <<resolveVars, httpVars, batchVars, aggVars, rankVars, mainVars, reportVars>>

\* Every DNS query and every HTTP request returns or times out (wait_for and
\* ClientTimeout), every sleep ends, and the event loop runs whatever is
\* ready. A cancellation and an exception from a console write are not owed.
Scheduling ==
    /\ WF_vars(ResolveStep)
    /\ WF_vars(HttpStep)
    /\ \A s \in Servers : WF_vars(EvalStep(s))
    /\ WF_vars(GatherStep)

SpecRun == InitRun /\ [][NextRun]_vars /\ Scheduling

\* ------------------------------------------------------------- the claims
\* C1: one resolve call issues at most retries (maxAttempts) queries, never
\* two at once, and none after a query of the call has succeeded.
C1_BoundedSequentialQueries ==
    /\ r_obs.queries <= retries
    /\ r_obs.inflight <= 1
    /\ r_obs.afterSuccess = 0

\* A call that succeeded at its second query while attempts remained.
C1_Witness ==
    /\ r_pc = "done"
    /\ r_obs.succeeded
    /\ r_obs.queries = 2
    /\ r_obs.failed = 1
    /\ retries = 3

\* C2: a call whose attempts all failed returns a failed outcome, the one
\* built for its last failed attempt; a call returns an elapsed value only
\* if one of its queries succeeded.
AllAttemptsFailed ==
    /\ r_pc = "done"
    /\ HAS_AIODNS
    /\ ~r_obs.succeeded

C2_LastFailureReturned ==
    /\ AllAttemptsFailed =>
          /\ r_ret.elapsed = None
          /\ r_ret.error # "none"
          /\ retries >= 1 =>
                /\ r_obs.failed = retries
                /\ r_obs.lastFailure.at = retries - 1
                /\ r_ret = HandledOutcome(r_obs.lastFailure, retries - 1, retries)
    /\ (r_pc = "done" /\ r_ret.elapsed # None) => r_obs.succeeded

\* Three attempts failed and the timeout of the third one is returned.
C2_Witness ==
    /\ AllAttemptsFailed
    /\ retries = 3
    /\ r_obs.failed = 3
    /\ r_ret.error = "TIMEOUT"
    /\ r_ret.error_msg.a = 3

\* C3: every outcome the Resolution Probe returns has an elapsed value or an
\* error classification, and never both.
ExactlyOne(outcome) == (outcome.elapsed # None) # (outcome.error # "none")

C3_ElapsedXorError ==
    (r_pc = "done" /\ ~r_raised) => ExactlyOne(r_ret)

\* The fallback after a loop that never ran (retries = 0).
C3_Witness ==
    /\ r_pc = "done"
    /\ HAS_AIODNS
    /\ retries = 0
    /\ r_ret.elapsed = None
    /\ r_ret.error = "UNKNOWN"

\* C4: whatever failure the DNS or the HTTPS capability meets, the probe
\* returns a value and no exception leaves it.
C4_NoExceptionLeavesProbe ==
    /\ r_pc = "done" => (~r_raised /\ r_ret # NoOutcome)
    /\ h_pc = "done" => (~h_raised /\ h_ret # NoHttpResult)

\* An HTTP probe that followed a redirect and then met a TLS failure.
C4_Witness ==
    /\ h_pc = "done"
    /\ h_obs.failure = "tls"
    /\ Len(redirects) = 1
    /\ ~h_ret.success
    /\ ~h_raised

\* ----------------------------------------- the claims on the DNS stage
Batches == DOMAIN b_obs.batches
BatchOf(d) == b_obs.batches[d]
StatsOf(d) == results.domain_stats[d]

\* An attempt succeeded when it returned an elapsed value.
Succeeded(r) == r.type = "dict" /\ r.value.elapsed # None
ElapsedOrAbsent(r) == IF Succeeded(r) THEN r.value.elapsed ELSE None
Recorded(d) == Len(ValidTimes(StatsOf(d).times))

\* The loop over the gathered results came to the end of item k: no write to
\* the console failed at or before it.
LoopPassed(d, k) ==
    LET raise == BatchOf(d).raise
    IN  \/ raise = NoRaise
        \/ raise.where = "item" /\ k < raise.at
        \/ raise.where = "progress" /\ k <= raise.at

HasErrorRecord(d, k, text) ==
    \E e \in 1..Len(results.errors) :
        results.errors[e] = [domain |-> d, test_num |-> k - 1, error |-> text]

C6_SequenceKeepsSubmissionIndex ==
    \A d \in Batches :
        \A i \in 1..num_tests :
            /\ i <= Len(StatsOf(d).times)
            /\ StatsOf(d).times[i] = ElapsedOrAbsent(BatchOf(d).outcomes[i])

\* C7: the sequence stored for a domain has exactly num_tests elements.
C7_SequenceLengthIsNumTests ==
    \A d \in Batches : Len(StatsOf(d).times) = num_tests

\* C8: success_rate is 100 * (attempts with an elapsed value) / num_tests,
\* lies in [0, 100] and is 0 exactly when no attempt has an elapsed value.
C8_SuccessRate ==
    \A d \in Batches :
        LET rate == StatsOf(d).success_rate
        IN  /\ rate.den > 0
            /\ rate.num * num_tests = 100 * Recorded(d) * rate.den
            /\ 0 <= rate.num
            /\ rate.num <= 100 * rate.den
            /\ (rate.num = 0) <=> (Recorded(d) = 0)

\* C9, as claimed: with fewer than two successful attempts std is 0.
C9_StdZeroBelowTwo ==
    \A d \in Batches : Recorded(d) < 2 => StatsOf(d).std = ZeroQ

\* C9, amended: with exactly one successful attempt std is 0; with none std
\* is absent, as min, max and avg are.
C9_StdZeroForOneAbsentForNone ==
    \A d \in Batches :
        /\ Recorded(d) = 1 => StatsOf(d).std = ZeroQ
        /\ Recorded(d) = 0 =>
              /\ StatsOf(d).std = NoneQ
              /\ StatsOf(d).avg = NoneQ
              /\ StatsOf(d).min = None
              /\ StatsOf(d).max = None

\* One success among two attempts: std is 0 and the mean is that one value.
C9_Witness ==
    /\ num_tests = 2
    /\ "a.example" \in Batches
    /\ BatchOf("a.example").raise = NoRaise
    /\ StatsOf("a.example").times = <<None, 3>>
    /\ StatsOf("a.example").std = ZeroQ
    /\ StatsOf("a.example").avg = [num |-> 3, den |-> 1]

\* C10: resolved_ips of a domain is the set of the IPs in the lists of the
\* attempts of its batch that are recorded with an elapsed value: each once,
\* none from a failed attempt, none from the batch of another domain.
RecordedSuccesses(d) ==
    { k \in 1..num_tests : k <= Len(StatsOf(d).times) /\ StatsOf(d).times[k] # None }

IpsOf(r) == { r.value.ips[j] : j \in 1..Len(r.value.ips) }

C12_HttpAfterAllDns ==
    \A s \in Servers, t \in Servers :
       evals[s].obs.probes > 0 => evals[t].pc # "dns"

\* C13: the probes of one resolver that hold its HTTP semaphore are never more
\* than max_http_concurrency.
C13_InFlightBounded ==
    \A s \in Servers : evals[s].obs.holding <= max_http_concurrency

\* The second probe of a resolver in flight under a limit of one.
C13_Witness ==
    \E s \in Servers :
       /\ max_http_concurrency = 1
       /\ evals[s].obs.holding = 1
       /\ evals[s].task_idx = 2
       /\ evals[s].task_pc = "probing"

\* C14: a probe is issued only inside the semaphore, the permits out are the
\* permits held, and when the HTTP stage of a resolver has ended (returned or
\* cancelled) the semaphore is back at max_http_concurrency.
C14_PermitsReturned ==
    \A s \in Servers :
       /\ evals[s].obs.unguarded = 0
       /\ enable_http_test =>
             evals[s].http_semaphore + evals[s].obs.holding = max_http_concurrency
       /\ (enable_http_test /\ evals[s].pc \in {"done", "cancelled"}) =>
             evals[s].http_semaphore = max_http_concurrency

\* A stage that ended by cancellation after a probe that returned and a probe
\* that raised.
C14_Witness ==
    \E s \in Servers :
       /\ evals[s].pc = "cancelled"
       /\ evals[s].obs.exits = {"return", "exception", "cancelled"}
       /\ evals[s].http_semaphore = max_http_concurrency
       /\ max_http_concurrency > 0

\* C15: once the HTTP stage of a resolver is over, every (domain, ip) whose
\* task raised has a failed entry in http_stats of its domain and is counted
\* in failed_ips.
C15_TaskExceptionRecorded ==
    \A s \in Servers :
       evals[s].pc = "done" =>
          /\ \A task \in evals[s].obs.raised :
                /\ task.ip_address \in DOMAIN evals[s].domain_stats[task.domain].http_stats
                /\ ~evals[s].domain_stats[task.domain].http_stats[task.ip_address].success
          /\ evals[s].http_test_stats.failed_ips >= Cardinality(evals[s].obs.raised)

\* What a probe that returned reports.
ProbeReturned == h_pc = "done" /\ ~h_raised /\ HAS_AIOHTTP

\* C16: a probe that was redirected to a URL already in its chain (or to the
\* URL that redirected it) ends as a failure whose error is the redirect loop,
\* whatever max_redirects is; it never issues more than max_redirects requests.
C16_RevisitFailsWithLoop ==
    /\ h_obs.requests <= max_redirects
    /\ (h_pc = "done" /\ h_obs.loopTarget) =>
          /\ ProbeReturned
          /\ ~h_ret.success
          /\ Contains(h_ret.error, "redirect loop")

\* C17: a probe that followed exactly max_redirects redirects, none of them to
\* a URL of its chain, and met no failure has asked for the response after
\* the chain, and succeeds when that response is a status below 400.
C17_ChainOfLimitSucceeds ==
    ( /\ ProbeReturned
      /\ Len(h_obs.followed) = max_redirects
      /\ ~h_obs.loopTarget
      /\ ~h_obs.missingLocation
      /\ h_obs.failure = "none" ) =>
        /\ h_obs.requests = max_redirects + 1
        /\ h_obs.lastStatus \in {200, 304} => h_ret.success

\* C18: a probe that was answered with redirects only (each with a Location,
\* none revisited) and met no other failure ends as a failure whose error is
\* the redirect limit, after at most max_redirects redirects; with
\* max_redirects = 0 that is its only outcome besides a setup failure.
C18_ChainBeyondLimitFails ==
    ( /\ h_pc = "done"
      /\ HAS_AIOHTTP
      /\ h_obs.failure = "none"
      /\ ~h_obs.missingLocation
      /\ ~h_obs.revisited
      /\ h_obs.lastStatus \in RedirectStatuses \cup {None} ) =>
        /\ ProbeReturned
        /\ ~h_ret.success
        /\ h_ret.error = <<"redirect limit exceeded">>
        /\ Len(h_obs.followed) = max_redirects

\* Two redirects followed under a limit of two.
C18_Witness ==
    /\ h_pc = "done"
    /\ max_redirects = 2
    /\ Len(h_obs.followed) = 2
    /\ ~h_obs.loopTarget
    /\ h_ret.error = <<"redirect limit exceeded">>

\* C19: a redirect response without a Location header ends the probe at once:
\* a failure whose error is the missing Location, and no request after the
\* one that was answered.
C19_MissingLocationFails ==
    h_obs.missingLocation =>
       /\ ProbeReturned
       /\ ~h_ret.success
       /\ Contains(h_ret.error, "redirect without Location")
       /\ h_obs.requests = Len(h_obs.followed) + 1

\* A second response, after one followed redirect, that lacks the header.
C19_Witness ==
    /\ h_pc = "done"
    /\ h_obs.missingLocation
    /\ Len(h_obs.followed) = 1
    /\ h_obs.lastStatus = 308

\* C20: the dictionary a probe returns, success or failure, has in redirects
\* the URLs that were answered with a followed redirect, in the order they
\* were visited; the final URL is not appended.
C20_OutcomeCarriesChain ==
    (h_pc = "done" /\ ~h_raised) =>
       /\ h_ret.redirects = h_obs.followed
       /\ (h_obs.followed = <<RootURL>> /\ h_obs.lastStatus = 200) =>
             (h_ret.redirects = <<RootURL>> /\ h_ret.status_code = 200)

\* A probe that timed out at its second request, after one redirect.
C20_Witness ==
    /\ h_pc = "done"
    /\ h_obs.failure = "timeout"
    /\ ~h_ret.success
    /\ h_ret.redirects = <<RootURL>>
    /\ current_url = [netloc |-> ProbedIP, path |-> "/next"]

\* C21: in every dictionary a probe returns, success goes with no error and a
\* status code below 400, and failure goes with an error or a status code of
\* 400 or more.
C21_SuccessFlagConsistent ==
    (h_pc = "done" /\ ~h_raised) =>
       /\ h_ret.success =>
             (h_ret.error = NoText /\ h_ret.status_code # None /\ h_ret.status_code < 400)
       /\ ~h_ret.success =>
             (h_ret.error # NoText \/ (h_ret.status_code # None /\ h_ret.status_code >= 400))

\* A final response with status 404, after one redirect.
C21_Witness ==
    /\ h_pc = "done"
    /\ h_ret.status_code = 404
    /\ ~h_ret.success
    /\ h_ret.error = <<"HTTP", "404">>
    /\ Len(h_ret.redirects) = 1

\* C22: a probe whose request raised returns the error of the kind of the
\* exception: timeout, connection, tls (and not connection) or, for anything
\* else, the general request error.
C22_TransportErrorByKind ==
    (h_pc = "done" /\ h_obs.failure \in {"timeout", "connection", "tls", "failure"}) =>
       /\ ~h_raised
       /\ ~h_ret.success
       /\ h_obs.failure = "timeout" => Contains(h_ret.error, "timeout")
       /\ h_obs.failure = "connection" => Contains(h_ret.error, "connection error")
       /\ h_obs.failure = "tls" =>
             (Contains(h_ret.error, "ssl error") /\ ~Contains(h_ret.error, "connection error"))
       /\ h_obs.failure = "failure" => Contains(h_ret.error, "request error")

\* C23: what a completed run returns has one result per configured resolver,
\* in the order of the configuration, and every result has the stats of every
\* configured domain.
C23_ResultForEveryTarget ==
    final_results # <<>> =>
       /\ Len(final_results) = Len(ServerList)
       /\ \A i \in 1..Len(ServerList) :
             /\ final_results[i].dns_server = ServerList[i]
             /\ DOMAIN final_results[i].domain_stats =
                   { DomainList[k] : k \in 1..Len(DomainList) }

\* What the rows of the printed table say.
Printed == k_pc = "done"
HasSuccess(row) == row.successful_queries > 0
HasScore(row) == row.combined_score # NoneQ
RateAtLeast(rate, percent) == rate.num >= percent * rate.den
IsRecommended(row) == \E k \in 1..Len(recommended) : recommended[k] = row.dns_server
ServerOrder == [i \in 1..Len(table_data) |-> table_data[i].dns_server]

\* C24: without the HTTP stage the rows are in ascending order of the mean
\* DNS time, a resolver without a successful query is behind every resolver
\* with one, and rows of equal mean are in descending order of success rate.
C24_DnsRanking ==
    (Printed /\ ~k_enable_http_test) =>
       /\ Len(table_data) = Len(k_results)
       /\ \A i \in 1..Len(table_data), j \in 1..Len(table_data) :
             i < j =>
                /\ ~(~HasSuccess(table_data[i]) /\ HasSuccess(table_data[j]))
                /\ (HasSuccess(table_data[i]) /\ HasSuccess(table_data[j])) =>
                      /\ QLeq(table_data[i].avg_time, table_data[j].avg_time)
                      /\ QEq(table_data[i].avg_time, table_data[j].avg_time) =>
                            QLeq(table_data[j].success_rate, table_data[i].success_rate)

\* Four resolvers given in the reverse of their rank: none succeeded, mean 2
\* at 25%, mean 2 at 50%, mean 1.
C24_Witness ==
    /\ Printed
    /\ ~k_enable_http_test
    /\ Len(k_results) = 4
    /\ k_results[1].all_times = <<>>
    /\ k_results[2].all_times = <<2>>
    /\ k_results[3].all_times = <<1, 3>>
    /\ ServerOrder = <<"R4", "R3", "R2", "R1">>

\* C25: with the HTTP stage, the rows that have a combined score are in
\* descending order of the score, and rows of equal score in ascending order
\* of the mean DNS time.
C25_CombinedRanking ==
    (Printed /\ k_enable_http_test) =>
       \A i \in 1..Len(table_data), j \in 1..Len(table_data) :
          (i < j /\ HasScore(table_data[i]) /\ HasScore(table_data[j])) =>
             /\ QLeq(table_data[j].combined_score, table_data[i].combined_score)
             /\ QEq(table_data[i].combined_score, table_data[j].combined_score) =>
                   QLeq(table_data[i].avg_time, table_data[j].avg_time)

\* A slow resolver given first and ranked last, behind one of the same score
\* and a smaller mean, both behind a faster one.
C25_Witness ==
    /\ Printed
    /\ k_enable_http_test
    /\ Len(table_data) = 3
    /\ ServerOrder = <<"R3", "R2", "R1">>
    /\ \A i \in 1..3 : HasScore(table_data[i])
    /\ QLess(table_data[2].combined_score, table_data[1].combined_score)
    /\ QEq(table_data[2].combined_score, table_data[3].combined_score)
    /\ QLess(table_data[2].avg_time, table_data[3].avg_time)

\* C26: of two resolvers with the same DNS success rate, the same HTTP
\* success rate and the same mean HTTP time, the one with the smaller mean
\* DNS time has a combined score that is not smaller.
C26_ScoreMonotoneInDnsTime ==
    (Printed /\ k_enable_http_test) =>
       \A i \in 1..Len(table_data), j \in 1..Len(table_data) :
          ( /\ HasScore(table_data[i]) /\ HasScore(table_data[j])
            /\ QEq(table_data[i].success_rate, table_data[j].success_rate)
            /\ QEq(table_data[i].http_stats.success_rate, table_data[j].http_stats.success_rate)
            /\ table_data[i].http_stats.avg_total_time = table_data[j].http_stats.avg_total_time
            /\ QLess(table_data[i].avg_time, table_data[j].avg_time) ) =>
             QLeq(table_data[j].combined_score, table_data[i].combined_score)

\* Two such resolvers, the faster with the strictly greater score.
C26_Witness ==
    /\ Printed
    /\ k_enable_http_test
    /\ Len(table_data) = 2
    /\ k_results[1].all_times = <<1, 3>>
    /\ k_results[2].all_times = <<1, 1>>
    /\ k_results[1].http_test_stats = k_results[2].http_test_stats
    /\ k_results[1].http_times = <<3, 3>>
    /\ k_results[2].http_times = <<3, 3>>
    /\ QLess(table_data[2].combined_score, table_data[1].combined_score)
    /\ ServerOrder = <<"R2", "R1">>

\* Whether a row has HTTP data (an address was HTTP-tested for the resolver),
\* and whether it qualifies for recommendation.
HasHttpData(row) ==
    row.http_stats.present /\ row.http_stats.successful_tests + row.http_stats.failed_tests > 0

Qualifies(row) ==
    /\ HasSuccess(row)
    /\ RateAtLeast(row.success_rate, 50)
    /\ (k_enable_http_test /\ HasHttpData(row)) => RateAtLeast(row.http_stats.success_rate, 30)

\* C27: a recommended resolver has a successful query, a DNS success rate of
\* at least 50% and, with the HTTP stage and HTTP data, an HTTP success rate
\* of at least 30%; and a resolver with all of that is recommended unless
\* three recommendations are out already.
C27_RecommendedIffQualifies ==
    Printed =>
       \A i \in 1..Len(table_data) :
          /\ IsRecommended(table_data[i]) => Qualifies(table_data[i])
          /\ Qualifies(table_data[i]) =>
                (IsRecommended(table_data[i]) \/ Len(recommended) = MaxRecommendations)

\* C28: the recommendations are the first three (or fewer, if there are
\* fewer) qualifying rows, in the order of the table, and the notice that
\* nothing is recommended is printed exactly when no row qualifies.
QualifyingServers ==
    LET names == SelectSeq(table_data, Qualifies)
    IN  [k \in 1..Len(names) |-> names[k].dns_server]

C28_FirstThreeQualifying ==
    Printed =>
       /\ Len(recommended) <= 3
       /\ recommended =
             SubSeq(QualifyingServers, 1,
                    IF Len(QualifyingServers) < 3 THEN Len(QualifyingServers) ELSE 3)
       /\ no_recommendation <=> (QualifyingServers = <<>>)

\* C29: with the HTTP stage, a resolver with a successful query, a DNS
\* success rate of at least 50% and no HTTP data is recommended (unless three
\* recommendations are out already).
C29_NoHttpDataNoPenalty ==
    (Printed /\ k_enable_http_test) =>
       \A i \in 1..Len(table_data) :
          ( /\ HasSuccess(table_data[i])
            /\ RateAtLeast(table_data[i].success_rate, 50)
            /\ ~HasHttpData(table_data[i]) ) =>
             (IsRecommended(table_data[i]) \/ Len(recommended) = MaxRecommendations)

\* C30: under the scheduling above a run eventually completes and stays so:
\* the resolve call has ended after at most retries queries, the HTTP probe
\* has ended, every evaluation has ended with no task left at the semaphore,
\* every task of an evaluation that returned got into the semaphore, and,
\* unless an evaluation was cancelled, the results of the run are there.
RunEnded ==
    /\ r_pc \in {"idle", "done"}
    /\ r_obs.queries <= retries
    /\ h_pc \in {"idle", "done"}
    /\ \A s \in DOMAIN evals :
          /\ evals[s].pc \in {"done", "raised", "cancelled"}
          /\ evals[s].task_pc \notin {"waiting", "probing"}
          /\ evals[s].pc = "done" => evals[s].obs.probes = Len(evals[s].http_test_tasks)
    /\ (DOMAIN evals # {} /\ \A s \in DOMAIN evals : evals[s].pc # "cancelled")
          => final_results # <<>>

C30_RunCompletes == <>[]RunEnded

\* A run that completed after a resolver put three probes, one after the
\* other, through a semaphore of one.
C30_Witness ==
    /\ final_results # <<>>
    /\ max_http_concurrency = 1
    /\ \E s \in Servers :
          /\ evals[s].pc = "done"
          /\ evals[s].obs.probes = 3
          /\ Len(evals[s].http_test_tasks) = 3

\* C31: a process interrupted before or while it measures ends with status
\* 130 and has written neither the summary nor the report; one ended by an
\* unexpected failure ends with status 1; a completed one ends with status 0
\* after the summary and the report; the three statuses differ.
C31_ExitStatusByEnding ==
    m_pc = "exit" =>
       /\ (m_end = "interrupt" /\ m_interrupt.at \in {"config", "measure"}) =>
              exit_status = 130 /\ m_emitted = {}
       /\ m_end = "interrupt" => exit_status = 130
       /\ m_end = "failure" => exit_status = 1
       /\ m_end = "complete" =>
              exit_status = 0 /\ {"summary", "report"} \subseteq m_emitted

\* A run cancelled by Ctrl-C after the evaluation of one resolver had ended.
C31_Witness ==
    /\ m_pc = "exit"
    /\ m_end = "interrupt"
    /\ m_interrupt = [at |-> "measure", how |-> "cancel", pending |-> FALSE]
    /\ Len(m_done) = 1
    /\ exit_status = 130

\* C32: in one resolve call the failed attempts are 0..failed-1; the attempt
\* with index i is followed by one sleep of 0.5 * (i + 1) seconds (10 * (i + 1)
\* units of 0.05 s) exactly if i < retries - 1, the sleep is over before the
\* next attempt starts, and no sleep of that kind follows a success.
BackoffSleeps == SelectSeq(r_obs.sleeps, LAMBDA sl : sl.dur # 1)

C33_ClassifiedByCause ==
    r_obs.failed > 0 =>
       LET f == r_obs.lastFailure
       IN  last_error.error =
              CASE f.kind = "timeout" -> "TIMEOUT"
                [] f.kind = "dnserror" /\ Contains(f.text, "NXDOMAIN") -> "NXDOMAIN"
                [] f.kind = "dnserror" /\ ~Contains(f.text, "NXDOMAIN")
                      /\ Contains(f.text, "SERVFAIL") -> "SERVFAIL"
                [] f.kind = "dnserror" /\ ~Contains(f.text, "NXDOMAIN")
                      /\ ~Contains(f.text, "SERVFAIL") -> "DNS_ERROR"
                [] OTHER -> "UNKNOWN"

\* A call that returned NXDOMAIN for a text that names SERVFAIL as well.
C33_Witness ==
    /\ r_pc = "done"
    /\ r_ret.error = "NXDOMAIN"
    /\ r_obs.lastFailure.kind = "dnserror"
    /\ r_obs.lastFailure.text = <<"NXDOMAIN", "SERVFAIL">>

\* C34: when the evaluation of a resolver has returned with the HTTP stage
\* enabled, the tasks are the (domain, resolved address) pairs of the
\* resolver, each once; one probe was started per task; every result that a
\* probe returned is stored under http_stats[ip_address] of its domain; and
\* total_ips = tested_ips = successful_ips + failed_ips = the number of
\* stored entries.
ResolvedPairs(ev) ==
    UNION { { [domain |-> d, ip_address |-> ev.domain_stats[d].resolved_ips[k]] :
                k \in 1..Len(ev.domain_stats[d].resolved_ips) } :
            d \in DOMAIN ev.domain_stats }

StoredPairs(ev) ==
    UNION { { [domain |-> d, ip_address |-> ip] :
                ip \in DOMAIN ev.domain_stats[d].http_stats } :
            d \in DOMAIN ev.domain_stats }

C34_OneProbePerPair ==
    \A s \in Servers :
       (enable_http_test /\ evals[s].pc = "done") =>
          LET ev == evals[s]
              tasks == ev.http_test_tasks
              st == ev.http_test_stats
          IN  /\ { tasks[k] : k \in 1..Len(tasks) } = ResolvedPairs(ev)
              /\ Len(tasks) = Cardinality(ResolvedPairs(ev))
              /\ ev.obs.probes = Len(tasks)
              /\ \A k \in 1..Len(ev.http_results) :
                    LET r == ev.http_results[k]
                    IN  /\ r.ip_address \in DOMAIN ev.domain_stats[r.domain].http_stats
                        /\ ev.domain_stats[r.domain].http_stats[r.ip_address] = r.http_result
              /\ st.total_ips = st.tested_ips
              /\ st.tested_ips = st.successful_ips + st.failed_ips
              /\ st.total_ips = Cardinality(StoredPairs(ev))

\* A resolver with two addresses for the first domain and one of them for the
\* second as well: three probes, three entries, one of them failed.
C34_Witness ==
    \E s \in Servers :
       /\ evals[s].pc = "done"
       /\ evals[s].obs.probes = 3
       /\ Cardinality(StoredPairs(evals[s])) = 3
       /\ evals[s].http_test_stats.successful_ips = 2
       /\ evals[s].http_test_stats.failed_ips = 1
       /\ "198.51.100.2" \in DOMAIN evals[s].domain_stats["a.example"].http_stats
       /\ "198.51.100.2" \in DOMAIN evals[s].domain_stats["b.example"].http_stats

\* C35: the error report ends without an exception, every recorded error of
\* every result is counted in one bucket, the first that matches in the order
\* timeout, nxdomain, no_answer, network, other, and the buckets sum to the
\* number of recorded errors.
RECURSIVE RecordedErrors(_)
RecordedErrors(rs) ==
    IF rs = <<>> THEN 0 ELSE Len(Head(rs).errors) + RecordedErrors(Tail(rs))

C35_EveryErrorInOneBucket ==
    e_pc = "done" =>
       /\ ~e_raised
       /\ Len(e_counted) = RecordedErrors(e_results)
       /\ total_errors = RecordedErrors(e_results)
       /\ error_stats["timeout"] + error_stats["nxdomain"] + error_stats["no_answer"]
             + error_stats["network"] + error_stats["other"] = RecordedErrors(e_results)
       /\ \A b \in Buckets :
             error_stats[b] =
                Cardinality({ k \in 1..Len(e_counted) : e_counted[k].bucket = b })

\* C37: every counted error whose attempt the probe classified as TIMEOUT is
\* in the timeout bucket.
C37_TimeoutInTimeoutBucket ==
    e_pc = "done" =>
       \A k \in 1..Len(e_counted) :
          e_counted[k].classified = "TIMEOUT" => e_counted[k].bucket = "timeout"

\* C36: the first request of a probe, the one to https://<ip>/, has the
\* origin domain as its Host header.
C36_InitialHostIsOrigin ==
    h_obs.requests >= 1 => h_obs.hosts[1] = OriginDomain

\* C40: a probe issues at most max_redirects requests (none when it is 0);
\* the list redirects, and the chain of the returned result, never holds a
\* URL twice and never more than max_redirects URLs.
NoRepeat(chain) ==
    \A i \in 1..Len(chain), j \in 1..Len(chain) : chain[i] = chain[j] => i = j

C38_SuccessesPlusErrors ==
    b_pc = "dns_done" =>
       /\ Len(results.all_times) + Len(results.errors) = num_tests * Len(domains)
       /\ \A k \in 1..Len(results.errors) :
             results.errors[k].test_num \in 0..(num_tests - 1)

====
